---- MODULE Spec2Model ----
(***************************************************************************)
(* State-machine model of the hybrid-rag retrieval pipeline:               *)
(*   - ingestion  (src/src/api/routes.py upload_files / delete_file,       *)
(*                 src/src/docstore/*.py, src/src/chunker.py,              *)
(*                 src/src/qdrant_utils.py)                                *)
(*   - retrieval  (src/src/rag.py RagPipeline.retrieve,                    *)
(*                 src/src/docstore/docstore_crud.py)                      *)
(*   - generation (src/src/rag.py RagPipeline.generate_response,           *)
(*                 src/frontend/app.py on_message)                         *)
(***************************************************************************)
EXTENDS Integers, Sequences, FiniteSets, Bags, TLC

VARIABLES
    \* ---- relational store (committed data) and vector index ----
    files,              \* committed rows of table "files": set of [id, name]
    docstore,           \* committed rows of table "docstore": bag of rows
    index,              \* vector index: point id -> payload (child chunk)
    next_file_id,       \* autoincrement sequence of files.id
    objects,            \* object store: name -> parent spans of the stored text (0: none)
    reqs,               \* upload requests in flight or just finished: bag of records
    \* ---- one query request ----
    pc,                 \* position of the query request
    params,             \* [top_k, rerank_top_k, rerank, retrieve_neighbors, context_relevance]
    hits,               \* result of the index search
    retrieved_parents,  \* local variable retrieved_parents of retrieve()
    relevance,          \* the LLM's relevance judgment (raw response)
    response,           \* what generate_response returned / raised
    llm_streams,        \* number of LLM generation streams started
    streamed,           \* number of tokens on_message passed to stream_token
    trace,              \* steps of the query request, in execution order
    loop,               \* locals of the docstore loop the request is in
    \* ---- one call of a function of the library on its own ----
    call,               \* the function called, its arguments, and its position
    result              \* what the call has produced so far

storeVars == <<files, docstore, index, next_file_id, objects, reqs>>
queryVars == <<pc, params, hits, retrieved_parents, relevance, response, llm_streams,
              streamed, trace, loop>>
callVars == <<call, result>>
vars == <<files, docstore, index, next_file_id, objects, reqs,
          pc, params, hits, retrieved_parents, relevance, response, llm_streams,
          streamed, trace, loop,
          call, result>>

-----------------------------------------------------------------------------
(* Bounds of the model *)

MaxParents == 3        \* a document splits into 1..MaxParents parent spans
MaxOtherParents == 1   \* ... and the second document of a store into 0..MaxOtherParents
MaxUploadParents == 2  \* ... and 1..MaxUploadParents in a modelled upload or parent upsert
MaxTopK == 3           \* largest top_k (limit of the index search) of a retrieve() call
MaxQueryTopK == 1      \* largest top_k of a chat message's retrieval
MaxRerankTopK == 1     \* largest rerank_top_k
MaxScore == 1          \* cross-encoder scores are drawn from 0..MaxScore
MaxRating == 6         \* relevance ratings of the LLM are drawn from 0..MaxRating
MaxTokens == 2         \* chunks with content of one generation stream of a chat message
GuidanceChars == 2     \* characters of the guidance message that on_message relays
MaxRequests == 2       \* upload requests in flight at the same time
MaxFileId == 2         \* files.id values handed out by the sequence
UpsertBatchSize == 2   \* UPSERT_BATCH_SIZE of the deployment
MaxApplications == 2   \* applications of the parent upsert to the same chunks
MaxOtherCommits == 1   \* commits of other sessions next to a caller of the parent upsert

MaxCandidates == 3     \* candidates of a rerank call made on its own
MaxFilteredTopK == 2   \* largest top_k of a retrieval with a source filter
MaxPoints == 8         \* points of an index upsert made on its own
MaxTexts == 2          \* (source, text) pairs of one call of the chunker
MaxFragments == 3      \* chunks of one provider stream
MaxBatchSize == 4      \* largest upsert_batch_size of such an upsert
MaxCalls == 2          \* upsert calls made one after the other on one collection

Names == {"a", "b"}    \* file names (= chunk sources)

-----------------------------------------------------------------------------
(* Generic helpers *)

Range(s) == {s[i] : i \in DOMAIN s}

Min(a, b) == IF a <= b THEN a ELSE b

Max(a, b) == IF a >= b THEN a ELSE b

\* Python's s[:k]: the first k elements, all of s when k exceeds its length,
\* and for a negative k all but the last -k elements
SliceTo(s, k) ==
    IF k >= 0 THEN SubSeq(s, 1, Min(k, Len(s)))
    ELSE SubSeq(s, 1, Max(Len(s) + k, 0))

\* variant of join that pads: the separator follows every part
RECURSIVE join_padded(_, _)
join_padded(sep, parts) ==
    IF Len(parts) = 0 THEN ""
    ELSE parts[1] \o sep \o join_padded(sep, Tail(parts))

\* Python's sep.join(parts) on strings
RECURSIVE join(_, _)
join(sep, parts) ==
    IF Len(parts) = 0 THEN ""
    ELSE IF Len(parts) = 1 THEN parts[1]
    ELSE parts[1] \o sep \o join(sep, Tail(parts))

\* Python dict merge {**base, **extra}: keys of extra win
MergeDict(base, extra) ==
    [k \in (DOMAIN base) \cup (DOMAIN extra) |->
        IF k \in DOMAIN extra THEN extra[k] ELSE base[k]]

-----------------------------------------------------------------------------
(* Chunker: src/src/chunker.py                                             *)
(* A document is given by what the library splitter returns for it: the    *)
(* list of its parent spans, each with the list of its child spans.        *)

\* the number of child spans of parent span i (0-based) of a document
ChildSpanCount(i) == IF i = 0 THEN 2 ELSE 1

\* RecursiveCharacterTextSplitter(parent sizes).split_text(text): the spans of
\* the document named source that has n parent spans
ParentSpans(source, n) == [i \in 1..n |-> source \o ToString(i - 1)]

\* RecursiveCharacterTextSplitter(child sizes).split_text(parent text)
ChildSpans(parent) ==
    [j \in 1..ChildSpanCount(parent.metadata.id) |->
        parent.text \o "." \o ToString(j - 1)]

\* variant of split_text that numbers the spans from 1
split_text_from_one(chunks, metadata) ==
    [i \in 1..Len(chunks) |->
        [text |-> chunks[i], metadata |-> MergeDict(metadata, [id |-> i])]]

\* TextChunker.split_text: enumerate the spans, md["id"] = idx
split_text(chunks, metadata) ==
    [i \in 1..Len(chunks) |->
        [text |-> chunks[i], metadata |-> MergeDict(metadata, [id |-> i - 1])]]

\* Python's None
None == "None"

\* split_children, lines 66-68: metadata = parent["metadata"].copy();
\* metadata["parent_id"] = metadata.pop("id", None); metadata["child_id"] = child_id
ChildMetadata(parent_metadata, child_id) ==
    LET kept == [k \in (DOMAIN parent_metadata) \ {"id"} |-> parent_metadata[k]]
        id == IF "id" \in DOMAIN parent_metadata THEN parent_metadata.id ELSE None
    IN MergeDict(kept, [parent_id |-> id, child_id |-> child_id])

\* TextChunker.split_children: child_id counts from 0 over the given parents;
\* a child carries every key of its parent's metadata, "id" renamed to
\* "parent_id"
RECURSIVE split_children_loop(_, _, _, _)
split_children_loop(parent_chunks, p, child_id, child_chunks) ==
    IF p > Len(parent_chunks) THEN child_chunks
    ELSE LET parent == parent_chunks[p]
             spans == ChildSpans(parent)
             new == [j \in 1..Len(spans) |->
                        [text |-> spans[j],
                         metadata |-> ChildMetadata(parent.metadata, child_id + j - 1)]]
         IN split_children_loop(parent_chunks, p + 1, child_id + Len(spans),
                                child_chunks \o new)

split_children(parent_chunks) == split_children_loop(parent_chunks, 1, 0, <<>>)

\* base_metadata = None, and the empty dict that "if base_metadata" treats alike
NoMetadata == << >>

\* TextChunker.parent_child_splitter over texts = [(source, document)]:
\* metadata = base_metadata.copy() if base_metadata else {}; metadata["source"] = source
RECURSIVE parent_child_splitter_loop(_, _, _, _, _)
parent_child_splitter_loop(texts, base_metadata, t, parents, children) ==
    IF t > Len(texts) THEN [parents |-> parents, children |-> children]
    ELSE LET metadata == MergeDict(base_metadata, [source |-> texts[t].source])
             parent_chunks == split_text(ParentSpans(texts[t].source, texts[t].n), metadata)
             child_chunks == split_children(parent_chunks)
         IN parent_child_splitter_loop(texts, base_metadata, t + 1,
                                       parents \o parent_chunks,
                                       children \o child_chunks)

parent_child_splitter(texts, base_metadata) ==
    parent_child_splitter_loop(texts, base_metadata, 1, <<>>, <<>>)

-----------------------------------------------------------------------------
(* Vector index: src/src/qdrant_utils.py                                   *)

NoIndex == << >>       \* the empty collection

\* QdrantStore.upsert, lines 77-97: the points of one call, id = idx + 1
Points(metadatas) ==
    [idx \in 1..Len(metadatas) |-> [id |-> idx, payload |-> metadatas[idx]]]

\* number of requests QdrantStore.upsert sends for n points (lines 102-103)
NumBatches(n, upsert_batch_size) ==
    (n + upsert_batch_size - 1) \div upsert_batch_size

\* variant of the batch slice that ends one point late: points[i : i + size + 1]
BatchOverlapping(points, b, upsert_batch_size) ==
    SubSeq(points, b * upsert_batch_size + 1,
           Min(Len(points), (b + 1) * upsert_batch_size + 1))

\* points[i : i + upsert_batch_size] for the batch number b = 0, 1, ... (line 103)
Batch(points, b, upsert_batch_size) ==
    SubSeq(points, b * upsert_batch_size + 1,
           Min(Len(points), (b + 1) * upsert_batch_size))

\* client.upsert(points = batch_points), lines 105-108: a point replaces the
\* point that has the same id
upsert_batch(idx, batch_points) ==
    LET ids == {batch_points[i].id : i \in DOMAIN batch_points}
    IN [id \in (DOMAIN idx) \cup ids |->
            IF id \in ids
            THEN (CHOOSE pt \in Range(batch_points) : pt.id = id).payload
            ELSE idx[id]]

\* QdrantStore.upsert, lines 100-109: the collection after the first `done`
\* batches of the call were sent one after the other
RECURSIVE upsert_loop(_, _, _, _, _)
upsert_loop(idx, points, upsert_batch_size, b, done) ==
    IF b >= done THEN idx
    ELSE upsert_loop(upsert_batch(idx, Batch(points, b, upsert_batch_size)),
                     points, upsert_batch_size, b + 1, done)

upsert(idx, metadatas, upsert_batch_size, done) ==
    upsert_loop(idx, Points(metadatas), upsert_batch_size, 0, done)

\* the largest point id of the collection, 0 when it holds no point
MaxPointId(idx) ==
    IF DOMAIN idx = {} THEN 0
    ELSE CHOOSE m \in DOMAIN idx : \A k \in DOMAIN idx : k <= m

\* the points of one request of async_upsert (the async_upsert that
\* embed_and_index calls is not in src; after the spec, section 4.3: point
\* identity is a monotonically increasing integer assigned at upsert time):
\* the ids that follow the largest id of the collection
AsyncPoints(idx, metadatas) ==
    [i \in 1..Len(metadatas) |-> [id |-> MaxPointId(idx) + i, payload |-> metadatas[i]]]

\* one request of async_upsert: the batch number b of the payloads
async_upsert_batch(idx, metadatas, b, upsert_batch_size) ==
    upsert_batch(idx, AsyncPoints(idx, Batch(metadatas, b, upsert_batch_size)))

\* async_upsert(dense_embeddings, sparse_embeddings, metadatas) with no
\* other writer: the batches are sent one after the other
RECURSIVE async_upsert_loop(_, _, _, _)
async_upsert_loop(idx, metadatas, upsert_batch_size, b) ==
    IF b >= NumBatches(Len(metadatas), upsert_batch_size) THEN idx
    ELSE async_upsert_loop(async_upsert_batch(idx, metadatas, b, upsert_batch_size),
                           metadatas, upsert_batch_size, b + 1)

async_upsert(idx, metadatas, upsert_batch_size) ==
    async_upsert_loop(idx, metadatas, upsert_batch_size, 0)

\* the source filter of the search (the spec's source_filter; the
\* async_search that takes `sources` is not in src): the points that are
\* candidates, all of them when no source is named
source_filter(idx, sources) ==
    {id \in DOMAIN idx : sources = {} \/ idx[id].metadata.source \in sources}

\* QdrantStore.search with hybrid = TRUE: the engine returns at most top_k
\* distinct points, restricted to the named sources when a filter is given
SearchResults(idx, top_k, sources) ==
    LET cand == source_filter(idx, sources)
        RECURSIVE lists(_)
        lists(k) == IF k = 0 THEN {<< >>}
                    ELSE LET shorter == lists(k - 1)
                         IN shorter \cup
                            {Append(l, id) : l \in {x \in shorter : Len(x) = k - 1},
                                             id \in cand}
    IN {[i \in 1..Len(l) |-> idx[l[i]]] :
            l \in {x \in lists(Min(top_k, Cardinality(cand))) :
                        Cardinality(Range(x)) = Len(x)}}

-----------------------------------------------------------------------------
(* Document store: src/src/docstore/models.py, docstore_crud.py            *)

\* SELECT ... FROM docstore WHERE source = s AND parent_id IN ids: the rows
\* that match (a bag holds a row once per copy)
WhereDocstore(store, source, ids) ==
    LET match == {r \in BagToSet(store) : r.source = source /\ r.parent_id \in ids}
    IN [r \in match |-> store[r]]

\* ... ORDER BY parent_id: the lists in which the engine may return the rows;
\* rows of equal parent_id come in the order of the engine's choice
RECURSIVE RowsOf(_)
RowsOf(rows) ==
    IF rows = EmptyBag THEN {<< >>}
    ELSE LET least == {x \in BagToSet(rows) :
                          \A y \in BagToSet(rows) : x.parent_id <= y.parent_id}
         IN UNION {{<<r>> \o rest : rest \in RowsOf(rows (-) SetToBag({r}))} :
                      r \in least}

\* SELECT ... WHERE source = s AND parent_id IN ids ORDER BY parent_id
SelectDocstore(store, source, ids) == RowsOf(WhereDocstore(store, source, ids))

\* the only row of a result that has one row
OnlyRow(rows) == CHOOSE r \in BagToSet(rows) : TRUE

\* Docstore(file_id=..., source=..., parent_id=..., text=..., chunk_metadata=...)
DocstoreRow(file_id, source, parent_id, text, chunk_metadata) ==
    [file_id |-> file_id, source |-> source, parent_id |-> parent_id,
     text |-> text, chunk_metadata |-> chunk_metadata]

\* the locals of the parent upsert between two passes of its loop
UpsertLocals(raised, staged, saved) ==
    [raised |-> raised, staged |-> staged, saved |-> saved]

\* variant of the pass without the exists-check: the entry is always added
upsert_entry_without_exists_check(entry, committed, staged, file_id_map, saved) ==
    UpsertLocals(FALSE,
                 staged (+) SetToBag({DocstoreRow(file_id_map[entry.metadata.source],
                                                  entry.metadata.source, entry.metadata.id,
                                                  entry.text, entry.metadata)}),
                 saved + 1)

\* one pass of the loop of async_upsert_parents_to_docstore, lines 87-109,
\* for one entry: committed is what the database holds, staged what the
\* session has added (the SELECT flushes it first); the pass adds the row
\* when the SELECT finds none, and raises when scalar_one_or_none() finds
\* more than one or the source is not in file_id_map
async_upsert_entry(entry, committed, staged, file_id_map, saved) ==
    LET source == entry.metadata.source
        parent_id == entry.metadata.id
        rows == WhereDocstore(committed (+) staged, source, {parent_id})
    IN IF BagCardinality(rows) > 1 THEN UpsertLocals(TRUE, staged, saved)
       ELSE IF BagCardinality(rows) = 1 THEN UpsertLocals(FALSE, staged, saved)
       ELSE IF source \notin DOMAIN file_id_map THEN UpsertLocals(TRUE, staged, saved)
       ELSE UpsertLocals(FALSE,
                         staged (+) SetToBag({DocstoreRow(file_id_map[source], source,
                                                          parent_id, entry.text,
                                                          entry.metadata)}),
                         saved + 1)

\* one pass of the loop of upsert_parents_to_docstore (sync), lines 40-55:
\* the entry's key is read from metadata["parent_id"] (KeyError when the
\* entry has none); the exists-check is query(...).first() on a session
\* without autoflush, so it sees what the database holds and not what the
\* session has added
upsert_entry(entry, committed, staged, file_id_map, saved) ==
    LET source == entry.metadata.source
    IN IF "parent_id" \notin DOMAIN entry.metadata
       THEN UpsertLocals(TRUE, staged, saved)
       ELSE LET parent_id == entry.metadata.parent_id
                rows == WhereDocstore(committed, source, {parent_id})
            IN IF BagCardinality(rows) >= 1 THEN UpsertLocals(FALSE, staged, saved)
               ELSE IF source \notin DOMAIN file_id_map
               THEN UpsertLocals(TRUE, staged, saved)
               ELSE UpsertLocals(FALSE,
                                 staged (+) SetToBag({DocstoreRow(file_id_map[source],
                                                        source, parent_id, entry.text,
                                                        entry.metadata)}),
                                 saved + 1)

\* upsert_parents_to_docstore (sync), lines 17-62, on a database that no
\* one else writes to during the call
RECURSIVE upsert_loop_sync(_, _, _, _, _, _)
upsert_loop_sync(new_entries, e, committed, staged, file_id_map, saved) ==
    IF e > Len(new_entries) THEN UpsertLocals(FALSE, staged, saved)
    ELSE LET pass == upsert_entry(new_entries[e], committed, staged, file_id_map, saved)
         IN IF pass.raised THEN pass
            ELSE upsert_loop_sync(new_entries, e + 1, committed, pass.staged,
                                  file_id_map, pass.saved)

upsert_parents_to_docstore(new_entries, committed, staged, file_id_map) ==
    upsert_loop_sync(new_entries, 1, committed, staged, file_id_map, 0)

\* async_upsert_parents_to_docstore, lines 64-115, on a database that no one
\* else writes to during the call: the session's staged rows and the saved
\* count, or raised
RECURSIVE async_upsert_parents_loop(_, _, _, _, _, _)
async_upsert_parents_loop(new_entries, e, committed, staged, file_id_map, saved) ==
    IF e > Len(new_entries) THEN UpsertLocals(FALSE, staged, saved)
    ELSE LET pass == async_upsert_entry(new_entries[e], committed, staged,
                                        file_id_map, saved)
         IN IF pass.raised THEN pass
            ELSE async_upsert_parents_loop(new_entries, e + 1, committed, pass.staged,
                                   file_id_map, pass.saved)

async_upsert_parents_to_docstore(new_entries, committed, staged, file_id_map) ==
    async_upsert_parents_loop(new_entries, 1, committed, staged, file_id_map, 0)

\* the locals of the parent lookup between two passes of its loop
ResolveLocals(raised, seen_keys, parent_chunks) ==
    [raised |-> raised, seen_keys |-> seen_keys, parent_chunks |-> parent_chunks]

\* the record built from a docstore row, lines 197-204
ParentRecord(parent) ==
    [text |-> parent.text,
     metadata |-> MergeDict([source |-> parent.source, id |-> parent.parent_id],
                            parent.chunk_metadata)]

\* variant of the pass that keeps no seen_keys: one record per hit found
resolve_hit_without_seen_keys(hit, store, seen_keys, parent_chunks) ==
    LET rows == WhereDocstore(store, hit.metadata.source, {hit.metadata.parent_id})
    IN IF rows = EmptyBag THEN ResolveLocals(FALSE, seen_keys, parent_chunks)
       ELSE ResolveLocals(FALSE, seen_keys,
                          Append(parent_chunks, ParentRecord(OnlyRow(rows))))

\* variant of the pass that uses scalar_one(): a hit without a row raises
resolve_hit_scalar_one(hit, store, seen_keys, parent_chunks) ==
    LET key == <<hit.metadata.source, hit.metadata.parent_id>>
        rows == WhereDocstore(store, key[1], {key[2]})
    IN IF key \in seen_keys THEN ResolveLocals(FALSE, seen_keys, parent_chunks)
       ELSE IF BagCardinality(rows) # 1 THEN ResolveLocals(TRUE, seen_keys, parent_chunks)
       ELSE ResolveLocals(FALSE, seen_keys \cup {key},
                          Append(parent_chunks, ParentRecord(OnlyRow(rows))))

\* variant of the pass that selects by parent_id alone
resolve_hit_by_parent_id_only(hit, store, seen_keys, parent_chunks) ==
    LET key == <<hit.metadata.source, hit.metadata.parent_id>>
        match == {r \in BagToSet(store) : r.parent_id = hit.metadata.parent_id}
    IN IF key \in seen_keys \/ match = {}
       THEN ResolveLocals(FALSE, seen_keys, parent_chunks)
       ELSE ResolveLocals(FALSE, seen_keys \cup {key},
                          Append(parent_chunks,
                                 ParentRecord(CHOOSE r \in match : TRUE)))

\* one pass of the loop of async_retrieve_parent_chunks_from_docstore, lines
\* 178-205, for one hit: a key seen before is skipped without a query;
\* scalar_one_or_none() raises on more than one row; a row found is recorded
\* and its key remembered; a hit without a row leaves the locals as they are
resolve_hit(hit, store, seen_keys, parent_chunks) ==
    LET source == hit.metadata.source
        parent_id == hit.metadata.parent_id
        key == <<source, parent_id>>
        rows == WhereDocstore(store, source, {parent_id})
    IN IF key \in seen_keys THEN ResolveLocals(FALSE, seen_keys, parent_chunks)
       ELSE IF BagCardinality(rows) > 1 THEN ResolveLocals(TRUE, seen_keys, parent_chunks)
       ELSE IF BagCardinality(rows) = 1
            THEN ResolveLocals(FALSE, seen_keys \cup {key},
                               Append(parent_chunks, ParentRecord(OnlyRow(rows))))
       ELSE ResolveLocals(FALSE, seen_keys, parent_chunks)

\* async_retrieve_parent_chunks_from_docstore, lines 160-208, on a database
\* that no one writes to during the call
RECURSIVE retrieve_parent_chunks_loop(_, _, _, _, _)
retrieve_parent_chunks_loop(points, h, store, seen_keys, parent_chunks) ==
    IF h > Len(points) THEN [raised |-> FALSE, value |-> parent_chunks]
    ELSE LET pass == resolve_hit(points[h], store, seen_keys, parent_chunks)
         IN IF pass.raised THEN [raised |-> TRUE, value |-> << >>]
            ELSE retrieve_parent_chunks_loop(points, h + 1, store, pass.seen_keys,
                                             pass.parent_chunks)

async_retrieve_parent_chunks_from_docstore(points, store) ==
    retrieve_parent_chunks_loop(points, 1, store, {}, << >>)

\* variant of the neighbour window that always returns three rows: a
\* boundary chunk borrows the row two steps away
NeighborRowsClamped(store, source, parent_id) ==
    LET window == SelectDocstore(store, source, {parent_id - 1, parent_id, parent_id + 1})
    IN IF \E rows \in window : Len(rows) = 3 THEN window
       ELSE SelectDocstore(store, source,
                           {parent_id - 2, parent_id - 1, parent_id,
                            parent_id + 1, parent_id + 2})

\* the rows async_retrieve_parent_neighbors selects for one document, lines
\* 305-312, in the orders in which the engine may return them
NeighborRows(store, source, parent_id) ==
    SelectDocstore(store, source, {parent_id - 1, parent_id, parent_id + 1})

\* doc.get("metadata", {}).get("id") / .get("source") is None, line 302
SkipsNeighbors(doc) ==
    "id" \notin DOMAIN doc.metadata \/ "source" \notin DOMAIN doc.metadata

\* one pass of the loop of async_retrieve_parent_neighbors, lines 298-318,
\* for a document that is not skipped: the records the pass may append, one
\* for each order in which the rows may come
neighbors_of_doc(doc, store) ==
    {[text |-> join(" ", [i \in 1..Len(rows) |-> rows[i].text]),
      metadata |-> [source |-> doc.metadata.source]] :
        rows \in NeighborRows(store, doc.metadata.source, doc.metadata.id)}

-----
(* Reranker: src/src/rerank.py                                             *)

\* CrossEncoder.rank of the sentence-transformers library, the return of
\* line 56: every document with its score, sorted by descending score
\* (documents of equal score keep their input order)
RECURSIVE rank(_, _)
rank(score, left) ==
    IF left = {} THEN << >>
    ELSE LET best == CHOOSE i \in left :
                        \A j \in left : score[i] > score[j]
                                        \/ (score[i] = score[j] /\ i <= j)
         IN <<[corpus_id |-> best - 1, score |-> score[best]]>>
            \o rank(score, left \ {best})

\* Rerank.rerank, lines 50-55: the number of calls of the scoring model
rank_calls(docs) == IF Len(docs) = 0 THEN 0 ELSE 1

\* variant of rerank that truncates to top_k whatever get_all says
rerank_always_top_k(docs, scores, top_k, get_all) ==
    IF Len(docs) = 0 THEN << >>
    ELSE SliceTo(scores, top_k)

\* Rerank.rerank, lines 50-61, when rank does not raise (scores = the list
\* rerank_model.rank returned at line 56, not looked at for no documents)
rerank(docs, scores, top_k, get_all) ==
    IF Len(docs) = 0 THEN << >>
    ELSE IF get_all THEN scores ELSE SliceTo(scores, top_k)

\* Rerank.get_ranked_docs, lines 82-94
get_ranked_docs(docs, scores) ==
    IF Len(docs) = 0 THEN << >>
    ELSE [s \in 1..Len(scores) |->
            MergeDict(docs[scores[s].corpus_id + 1],
                      [rerank_score |-> scores[s].score])]

-----------------------------------------------------------------------------
(* Relevance gate: src/src/rag_utils.py check_context_relevance,           *)
(* src/src/rag.py RagPipeline.generate_response                            *)

\* what llm.async_invoke may return for the relevance prompt: text that is
\* not JSON, JSON without "rating", JSON with "rating": null, or an integer
LLMResponses ==
    {[kind |-> k, rating |-> 0] : k \in {"unparseable", "no_rating", "null_rating"}}
    \cup {[kind |-> "int", rating |-> r] : r \in 0..MaxRating}

NoRelevance == [kind |-> "none", rating |-> 0]

\* variant of the gate whose lower threshold is off by one (3 <= rating <= 5)
generate_response_threshold3(context_relevance, judgment) ==
    IF ~context_relevance THEN "stream"
    ELSE IF judgment.kind # "int" THEN "error"
    ELSE IF 3 <= judgment.rating /\ judgment.rating <= 5 THEN "stream"
    ELSE "guidance"

\* generate_response, lines 278-308, for the judgment the LLM returned:
\*   "stream"   the generator stream_response(messages) is returned
\*   "guidance" the fixed guidance message is returned
\*   "error"    RuntimeError("Unable to generate response: ...") is raised
generate_response(context_relevance, judgment) ==
    IF ~context_relevance THEN "stream"
    ELSE IF judgment.kind = "unparseable" THEN "error"     \* json.loads raises
    ELSE IF judgment.kind = "no_rating" THEN "error"       \* relevance['rating'] raises KeyError
    ELSE IF judgment.kind = "null_rating" THEN "error"     \* raise KeyError("Missing 'rating'")
    ELSE IF 2 <= judgment.rating /\ judgment.rating <= 5 THEN "stream"
    ELSE "guidance"

-----------------------------------------------------------------------------
(* One query request: src/frontend/app.py on_message,                      *)
(* src/src/rag.py RagPipeline.retrieve                                     *)

\* variant of the control flow that expands neighbours before it reranks
NextStepNeighborsFirst(step, p) ==
    CASE step = "embed" -> "search"
      [] step = "search" -> "resolve"
      [] step = "resolve" ->
            IF ~p.rerank /\ ~p.retrieve_neighbors THEN "retrieved"
            ELSE IF p.retrieve_neighbors THEN "neighbors" ELSE "rerank"
      [] step = "neighbors" -> IF p.rerank THEN "rerank" ELSE "retrieved"
      [] step = "rerank" -> "retrieved"

\* control flow of retrieve(), lines 168-197: the step that follows `step`
NextStep(step, p) ==
    CASE step = "embed" -> "search"
      [] step = "search" -> "resolve"
      [] step = "resolve" ->
            IF ~p.rerank /\ ~p.retrieve_neighbors THEN "retrieved"
            ELSE IF p.rerank THEN "rerank" ELSE "neighbors"
      [] step = "rerank" -> IF p.retrieve_neighbors THEN "neighbors" ELSE "retrieved"
      [] step = "neighbors" -> "retrieved"

\* variant of the error handling that repeats a failed step
StepOutcomeRetrying(step, ok, p) ==
    IF ok THEN NextStep(step, p) ELSE step

\* retrieve, lines 168 and 199-201: a step that raises ends retrieve with
\* RuntimeError("Failed to retrieve parents: ..."); otherwise the next step runs
StepOutcome(step, ok, p) ==
    IF ok THEN NextStep(step, p) ELSE "failed"

\* the outcomes with which a handler, or the body of a session block,
\* returns; with any other it raises
Returned == {"success", "absent"}

\* variant of the session block without a context manager (session =
\* AsyncSessionLocal(), the body, await session.close()): the session is
\* closed when the body returns and left open when it raises
close_after_body(outcome) == IF outcome \in Returned THEN "closed" ELSE "open"

\* async with AsyncSessionLocal() as session (session.py lines 57-59; the
\* self.session of rag.py lines 178 and 193 is AsyncSessionLocal): the
\* session is closed when the block is left, by a return and by an exception
async_with_exit(outcome) == "closed"

\* the locals of a loop over the docstore that has not started: the number
\* of elements handled, the keys seen, the records built, and the error of
\* the pass that raised; with them the session of the async with block
\* that retrieve is in or has left last ("none" before the first)
NoLoop == [i |-> 0, seen_keys |-> {}, chunks |-> << >>, error |-> "none",
           session |-> "none"]

\* retrieve, lines 178 and 193: a step that goes on to the parent lookup
\* or to the neighbour lookup enters the async with block around it, which
\* opens a session, before it awaits the first SELECT
EnterBlock(locals, next) ==
    IF next \in {"resolve", "neighbors"} THEN [locals EXCEPT !.session = "open"]
    ELSE locals

\* what llm.async_invoke may return for the rewrite prompt: text that is not
\* JSON, JSON without "query", or JSON with "query" and the sources the
\* query names (none when "sources" is missing, null or empty)
RewriteAnswers ==
    {[kind |-> k, sources |-> {}] : k \in {"unparseable", "no_query"}}
    \cup {[kind |-> "json", sources |-> ss] : ss \in SUBSET Names}

\* rewrite_query, rag_utils.py lines 253-281: json.loads raises on text that
\* is not JSON, rewritten_res["query"] raises KeyError
rewrite_query(answer) ==
    IF answer.kind = "json" THEN [raised |-> FALSE, sources |-> answer.sources]
    ELSE [raised |-> TRUE, sources |-> {}]

\* on_message, lines 169-173: the query is rewritten before retrieval and
\* the sources of the rewrite are those retrieve is called with; a rewrite
\* that raises ends the message (on_message catches nothing)
RewriteQuery ==
    /\ pc = "on_message"
    /\ \E answer \in RewriteAnswers :
          LET rewritten == rewrite_query(answer)
          IN IF rewritten.raised
             THEN /\ pc' = "failed"
                  /\ response' = "error"
                  /\ UNCHANGED params
             ELSE /\ pc' = "embed"
                  /\ params' = [params EXCEPT !.sources = rewritten.sources]
                  /\ UNCHANGED response
    /\ trace' = Append(trace, "rewrite")
    /\ UNCHANGED <<hits, retrieved_parents, relevance, llm_streams, streamed, loop>>
    /\ UNCHANGED <<storeVars, callVars>>

\* retrieve, lines 169-170: dense and sparse embedding of the query; an
\* embedder that fails raises RuntimeError (embed.py lines 103-105, 140-142)
Embed ==
    /\ pc = "embed"
    /\ \E ok \in BOOLEAN :
          /\ pc' = StepOutcome("embed", ok, params)
          /\ response' = IF ok THEN response ELSE "error"
    /\ trace' = Append(trace, "embed")
    /\ UNCHANGED <<params, hits, retrieved_parents, relevance, llm_streams, streamed, loop>>
    /\ UNCHANGED <<storeVars, callVars>>

\* retrieve, lines 171-177: hybrid search of the index; a search that fails
\* is raised again by the store (qdrant_utils.py lines 176-178)
Search ==
    /\ pc = "search"
    /\ \E ok \in BOOLEAN :
          /\ IF ok
             THEN \E h \in SearchResults(index, params.top_k, params.sources) : hits' = h
             ELSE UNCHANGED hits
          /\ pc' = StepOutcome("search", ok, params)
          /\ response' = IF ok THEN response ELSE "error"
    /\ loop' = EnterBlock(loop, pc')
    /\ trace' = Append(trace, "search")
    /\ UNCHANGED <<params, retrieved_parents, relevance, llm_streams, streamed>>
    /\ UNCHANGED <<storeVars, callVars>>

\* retrieve, lines 178-183 (and 199-201 when the lookup raises), one pass of
\* the loop of async_retrieve_parent_chunks_from_docstore for the next hit:
\* the pass awaits one SELECT, unless the key was seen; the SELECT may fail,
\* and so may scalar_one_or_none()
ResolveHit ==
    /\ pc = "resolve"
    /\ loop.i < Len(hits)
    /\ LET hit == hits[loop.i + 1]
           pass == resolve_hit(hit, docstore, loop.seen_keys, loop.chunks)
           queried == <<hit.metadata.source, hit.metadata.parent_id>> \notin loop.seen_keys
       IN \E ok \in IF queried THEN BOOLEAN ELSE {TRUE} :
             IF ~ok \/ pass.raised
             THEN /\ pc' = "failed"
                  /\ response' = "error"
                  /\ trace' = Append(trace, "resolve")
                  /\ loop' = [NoLoop EXCEPT !.error = IF ok THEN "multiple_rows"
                                                      ELSE "database",
                                            !.session = async_with_exit("failed")]
             ELSE /\ loop' = [loop EXCEPT !.i = @ + 1,
                                          !.seen_keys = pass.seen_keys,
                                          !.chunks = pass.parent_chunks]
                  /\ UNCHANGED <<pc, response, trace>>
    /\ UNCHANGED <<params, hits, retrieved_parents, relevance, llm_streams, streamed>>
    /\ UNCHANGED <<storeVars, callVars>>

\* retrieve, lines 178-183: every hit has been handled; the session is
\* closed and parent_chunks is returned
ResolveParents ==
    /\ pc = "resolve"
    /\ loop.i = Len(hits)
    /\ retrieved_parents' = loop.chunks
    /\ pc' = NextStep("resolve", params)
    /\ trace' = Append(trace, "resolve")
    /\ loop' = EnterBlock([NoLoop EXCEPT !.session = async_with_exit("success")], pc')
    /\ UNCHANGED <<params, hits, relevance, response, llm_streams, streamed>>
    /\ UNCHANGED <<storeVars, callVars>>

\* retrieve, lines 185-190; Rerank.rerank returns [] for no documents
\* without calling the model, and raises RuntimeError when the one
\* rank(query, corpus) call over all documents fails (rerank.py lines 50-58):
\* the assignment of line 190 is then not reached, the local keeps the
\* documents resolved before, and retrieve raises (lines 199-201)
Rerank ==
    /\ pc = "rerank"
    /\ \E ok \in IF Len(retrieved_parents) = 0 THEN {TRUE} ELSE BOOLEAN :
          /\ IF ok
             THEN \E score \in [1..Len(retrieved_parents) -> 0..MaxScore] :
                     retrieved_parents' =
                         get_ranked_docs(retrieved_parents,
                                         rerank(retrieved_parents,
                                                rank(score, 1..Len(retrieved_parents)),
                                                params.rerank_top_k, FALSE))
             ELSE UNCHANGED retrieved_parents
          /\ pc' = StepOutcome("rerank", ok, params)
          /\ response' = IF ok THEN response ELSE "error"
    /\ loop' = EnterBlock(loop, pc')
    /\ trace' = Append(trace, "rerank")
    /\ UNCHANGED <<params, hits, relevance, llm_streams, streamed>>
    /\ UNCHANGED <<storeVars, callVars>>

\* retrieve, lines 192-194 (and 199-201 when the SELECT raises), one pass of
\* the loop of async_retrieve_parent_neighbors for the next document: a
\* document without id or source is skipped, for any other the pass awaits
\* one SELECT, which may fail
ExpandDoc ==
    /\ pc = "neighbors"
    /\ loop.i < Len(retrieved_parents)
    /\ LET doc == retrieved_parents[loop.i + 1]
       IN IF SkipsNeighbors(doc)
          THEN /\ loop' = [loop EXCEPT !.i = @ + 1]
               /\ UNCHANGED <<pc, response, trace>>
          ELSE \E ok \in BOOLEAN :
                  IF ok
                  THEN /\ \E neighbor \in neighbors_of_doc(doc, docstore) :
                             loop' = [loop EXCEPT !.i = @ + 1,
                                                  !.chunks = Append(@, neighbor)]
                       /\ UNCHANGED <<pc, response, trace>>
                  ELSE /\ pc' = "failed"
                       /\ response' = "error"
                       /\ trace' = Append(trace, "neighbors")
                       /\ loop' = [NoLoop EXCEPT !.error = "database",
                                                 !.session = async_with_exit("failed")]
    /\ UNCHANGED <<params, hits, retrieved_parents, relevance, llm_streams, streamed>>
    /\ UNCHANGED <<storeVars, callVars>>

\* retrieve, lines 192-194: every document has been handled (at once when
\* there is none); the session is closed and neighbors is returned
ExpandNeighbors ==
    /\ pc = "neighbors"
    /\ loop.i = Len(retrieved_parents)
    /\ retrieved_parents' = loop.chunks
    /\ pc' = NextStep("neighbors", params)
    /\ trace' = Append(trace, "neighbors")
    /\ loop' = EnterBlock([NoLoop EXCEPT !.session = async_with_exit("success")], pc')
    /\ UNCHANGED <<params, hits, relevance, response, llm_streams, streamed>>
    /\ UNCHANGED <<storeVars, callVars>>

\* on_message, line 182, with the gate disabled: generate_response, lines 278-279
GenerateUngated ==
    /\ pc = "retrieved"
    /\ ~params.context_relevance
    /\ response' = generate_response(FALSE, NoRelevance)
    /\ pc' = "respond"
    /\ UNCHANGED <<params, hits, retrieved_parents, relevance, llm_streams, streamed, trace, loop>>
    /\ UNCHANGED <<storeVars, callVars>>

\* on_message, line 182, with the gate enabled: generate_response, lines 280-308
CheckRelevance ==
    /\ pc = "retrieved"
    /\ params.context_relevance
    /\ \E judgment \in LLMResponses :
          /\ relevance' = judgment
          /\ response' = generate_response(TRUE, judgment)
          /\ pc' = IF generate_response(TRUE, judgment) = "error"
                   THEN "failed" ELSE "respond"
    /\ trace' = Append(trace, "gate")
    /\ UNCHANGED <<params, hits, retrieved_parents, llm_streams, streamed, loop>>
    /\ UNCHANGED <<storeVars, callVars>>

\* the positions of a request for which generate_response has returned:
\* about to iterate what it returned, awaiting response.stream_token,
\* awaiting response.update(), awaiting response.send(), and ended
Responding == {"respond", "streaming", "update", "send", "done"}

\* what next() on the generator of LLM.stream may do (llm.py, lines 24-34):
\* yield a chunk with content, end, or raise the provider's error, which
\* neither LLM.stream nor stream_response nor on_message catches
StreamEvents == {"chunk", "end", "raise"}

\* the position of on_message after next() on the generation stream
AfterStreamEvent(event) ==
    CASE event = "chunk" -> "streaming"
      [] event = "end" -> "update"
      [] event = "raise" -> "failed"

\* on_message, lines 185-189, up to its first await: the first next() of the
\* for loop runs stream_response and LLM.stream up to the first chunk, so the
\* completion is created here (the stream is started) and the provider may
\* fail here; with a chunk on_message awaits stream_token, with none it goes
\* on, without an await, to line 215 and awaits response.update()
StreamResponse ==
    /\ pc = "respond"
    /\ response = "stream"
    /\ llm_streams' = llm_streams + 1
    /\ \E event \in StreamEvents :
          /\ pc' = AfterStreamEvent(event)
          /\ streamed' = IF event = "chunk" THEN streamed + 1 ELSE streamed
    /\ trace' = Append(trace, "generate")
    /\ UNCHANGED <<params, hits, retrieved_parents, relevance, response, loop>>
    /\ UNCHANGED <<storeVars, callVars>>

\* on_message, lines 187-189, after an await of stream_token: the next
\* next() of the generation stream
StreamToken ==
    /\ pc = "streaming"
    /\ response = "stream"
    /\ \E event \in StreamEvents :
          /\ event = "chunk" => streamed < MaxTokens
          /\ pc' = AfterStreamEvent(event)
          /\ streamed' = IF event = "chunk" THEN streamed + 1 ELSE streamed
    /\ UNCHANGED <<params, hits, retrieved_parents, relevance, response, llm_streams, trace,
                   loop>>
    /\ UNCHANGED <<storeVars, callVars>>

\* on_message, lines 185-189, up to its first await: the guidance message is
\* a string, the for loop iterates its characters and awaits stream_token
\* with the first; no stream of the LLM is started
RelayGuidance ==
    /\ pc = "respond"
    /\ response = "guidance"
    /\ streamed' = streamed + 1
    /\ pc' = "streaming"
    /\ trace' = Append(trace, "fallback")
    /\ UNCHANGED <<params, hits, retrieved_parents, relevance, response, llm_streams, loop>>
    /\ UNCHANGED <<storeVars, callVars>>

\* on_message, lines 187-189, after an await of stream_token: the next
\* character of the guidance message, or after the last one line 215
RelayToken ==
    /\ pc = "streaming"
    /\ response = "guidance"
    /\ IF streamed < GuidanceChars
       THEN streamed' = streamed + 1 /\ UNCHANGED pc
       ELSE pc' = "update" /\ UNCHANGED streamed
    /\ UNCHANGED <<params, hits, retrieved_parents, relevance, response, llm_streams, trace,
                   loop>>
    /\ UNCHANGED <<storeVars, callVars>>

\* on_message, lines 215-216: response.update() has returned and
\* response.send() is awaited
UpdateMessage ==
    /\ pc = "update"
    /\ pc' = "send"
    /\ UNCHANGED <<params, hits, retrieved_parents, relevance, response, llm_streams,
                   streamed, trace, loop>>
    /\ UNCHANGED <<storeVars, callVars>>

\* on_message, line 216: response.send() has returned and on_message ends
SendMessage ==
    /\ pc = "send"
    /\ pc' = "done"
    /\ UNCHANGED <<params, hits, retrieved_parents, relevance, response, llm_streams,
                   streamed, trace, loop>>
    /\ UNCHANGED <<storeVars, callVars>>

-----------------------------------------------------------------------------
(* Upload and delete requests: src/src/api/routes.py upload_files,         *)
(* delete_file; src/src/docstore/files_crud.py                             *)

\* a request that has just arrived (the fields of a request: upload or
\* delete, the file name, the number n of parent spans of the text it
\* carries, the number of parent spans of the text it loaded from the object
\* it downloaded, the id of the File row its session flushed or fetched,
\* the docstore rows its session staged, the parent chunks handled and
\* saved so far, the index batches sent so far, the docstore rows its
\* session marked as deleted, how its handler ended, and the session that
\* Depends(get_async_session) opened for it; for a caller of the parent
\* upsert on its own also the number of its calls that have ended, whether
\* the store held all the chunks when the call in progress or ended last
\* began, whether an other session has committed during that call, and the
\* number of commits of other sessions)
NewReq == [kind |-> "upload", pc |-> "start", name |-> "", n |-> 0, loaded |-> 0,
           file_id |-> 0, staged |-> EmptyBag, entry |-> 0, saved |-> 0, applied |-> 0,
           batches |-> 0, deleted |-> EmptyBag, outcome |-> "none", session |-> "open",
           held |-> FALSE, disturbed |-> FALSE, others |-> 0]

NoRequests == EmptyBag

\* the requests in flight, with request r replaced by r2
Replace(rs, r, r2) == (rs (-) SetToBag({r})) (+) SetToBag({r2})

\* no object is stored
NoObjects == [name \in Names |-> 0]

\* the chunks of the text that the request loaded from the file it
\* downloaded (routes.py, lines 86-87)
Chunks(r) == parent_child_splitter(<<[source |-> r.name, n |-> r.loaded]>>, NoMetadata)

\* the names an upload may carry: file.filename is a name, or empty
FileNames == Names \cup {""}

\* the session of request r holds an inserted, uncommitted File row (the
\* INSERT was executed, and neither committed nor rolled back)
HoldsFileRow(r) ==
    r.kind = "upload" /\ r.pc \in {"index", "upsert_parents", "commit"}

\* what is kept of request r once its handler has returned or raised with
\* this outcome
Ended(r, outcome) ==
    LET ended == [NewReq EXCEPT !.kind = r.kind, !.pc = "exited", !.outcome = outcome]
    IN IF outcome = "success"
       THEN [ended EXCEPT !.file_id = r.file_id, !.n = r.n, !.loaded = r.loaded]
       ELSE IF outcome \in {"rejected", "absent"}
       THEN [ended EXCEPT !.name = r.name]
       ELSE [ended EXCEPT !.file_id = r.file_id]

\* upload_files, lines 93-107, delete_file, lines 112-119: the handler has
\* returned or raised; what its session staged and did not commit is
\* rolled back (by the handler, or when the session is closed), and the
\* session that get_async_session yielded is still open
Finished(r, outcome) == Ended(r, outcome)

\* variant of staging on a session in autocommit mode: the File row is
\* visible as soon as it is flushed
FilesAfterStageAutocommit(committed_files, new_file) == committed_files \cup {new_file}

\* async_stage_file_rows, lines 111-112: session.add + flush leave the
\* committed table as it is
FilesAfterStage(committed_files, new_file) == committed_files

\* session.commit(), routes.py line 92: the staged File row and the staged
\* docstore rows become visible together
FilesAfterCommit(committed_files, new_file) == committed_files \cup {new_file}

DocstoreAfterCommit(committed, staged) == committed (+) staged

\* await session.delete(file), files_crud.py line 200: the cascade
\* "all, delete-orphan" loads file.docstore_entries, the rows whose file_id
\* is the file's id, and marks them as deleted
EntriesOfFile(committed, file_id) ==
    LET entries == {r \in BagToSet(committed) : r.file_id = file_id}
    IN [r \in entries |-> committed[r]]

\* session.commit(), files_crud.py line 202: DELETE of the File row (no row
\* when an other request has deleted it by then)
FilesAfterDelete(committed_files, file) == committed_files \ {file}

\* ... and, before it, DELETE of the rows marked as deleted (of those that
\* are still there)
DocstoreAfterDelete(committed, deleted) == committed (-) deleted

\* docstore.file_id REFERENCES files.id (models.py line 35) keeps a File
\* row from being deleted while a docstore row refers to it
ForeignKeyViolated(committed_files, left, file) ==
    /\ file \in committed_files
    /\ \E r \in BagToSet(left) : r.file_id = file.id

\* what delete_file does to the vector index: nothing (routes.py lines 109-119)
IndexAfterDelete(idx, file) == idx

\* variant of the name check that does not look into the files table
ensure_unique_filenames_unchecked(committed_files, file_name) ==
    IF file_name = "" THEN "no_file" ELSE "unique"

\* async_ensure_unique_filenames, files_crud.py lines 64-79, when its
\* SELECT does not fail: "no_file" when HTTPException(400, "No file
\* provided.") is raised for an empty name (before the SELECT), "exists"
\* when HTTPException(400, "File ... already exists. ...") is raised for
\* the name of a committed File, "unique" when the name passes
async_ensure_unique_filenames(committed_files, file_name) ==
    IF file_name = "" THEN "no_file"
    ELSE IF \E existing_file \in committed_files : existing_file.name = file_name
    THEN "exists"
    ELSE "unique"

\* upload_files, lines 77-79: a request for a file named name whose text
\* splits into n parent spans arrives; async_ensure_unique_filenames
\* (files_crud.py lines 64-79) refuses an empty name, awaits a SELECT on
\* files, which may fail, and rejects a committed name
StartUpload ==
    /\ BagCardinality(reqs) < MaxRequests
    /\ next_file_id <= MaxFileId
    /\ \E name \in FileNames, n \in 1..MaxUploadParents, ok \in BOOLEAN :
          LET r == [NewReq EXCEPT !.name = name, !.n = n]
              checked == async_ensure_unique_filenames(files, name)
          IN reqs' = reqs (+) SetToBag({
                        IF checked = "no_file" THEN Finished(r, "no_file")
                        ELSE IF ~ok THEN Finished(r, "failed")
                        ELSE IF checked = "exists" THEN Finished(r, "rejected")
                        ELSE [r EXCEPT !.pc = "put"]})
    /\ UNCHANGED <<files, docstore, index, next_file_id, objects>>
    /\ UNCHANGED <<queryVars, callVars>>

\* upload_files, line 80: async_upload_file_to_minio (minio_utils.py lines
\* 34-46) awaits file.read() and puts the object under the file's name,
\* over an object of that name if there is one; a put that fails raises
PutObject ==
    \E r \in BagToSet(reqs) :
        /\ r.kind = "upload" /\ r.pc = "put"
        /\ \E ok \in BOOLEAN :
              /\ objects' = IF ok THEN [objects EXCEPT ![r.name] = r.n] ELSE objects
              /\ reqs' = Replace(reqs, r, IF ok THEN [r EXCEPT !.pc = "stage"]
                                          ELSE Finished(r, "failed"))
        /\ UNCHANGED <<files, docstore, index, next_file_id>>
        /\ UNCHANGED <<queryVars, callVars>>

\* upload_files, line 82: async_stage_file_rows (files_crud.py lines
\* 105-112) adds the File row and awaits the flush. The flush may fail
\* before the INSERT is executed (no id is taken then); otherwise the
\* INSERT is sent and takes the next value of the sequence as the id, at
\* once and whatever becomes of the row: a sequence does not wait and is
\* not rolled back
StageFileRow ==
    \E r \in BagToSet(reqs) :
        /\ r.pc = "stage"
        /\ \/ /\ reqs' = Replace(reqs, r, Finished(r, "failed"))
              /\ UNCHANGED next_file_id
           \/ /\ reqs' = Replace(reqs, r, [r EXCEPT !.pc = "insert",
                                                    !.file_id = next_file_id])
              /\ next_file_id' = next_file_id + 1
        /\ UNCHANGED <<files, docstore, index, objects>>
        /\ UNCHANGED <<queryVars, callVars>>

\* what the request goes on with once its File row is inserted:
\* async_download_file (minio_utils.py lines 63-76, no await) fetches the
\* object that is stored under the file's name by then, pipeline.load and
\* pipeline.split read it, and embed_and_index is awaited; any of them may
\* raise
AfterInsert(r, ok) ==
    IF ok /\ objects[r.name] > 0
    THEN [r EXCEPT !.pc = "index", !.loaded = objects[r.name]]
    ELSE Finished(r, "failed")

\* variant of the INSERT on a files table without the unique index on
\* name: it neither waits for an open transaction nor fails
InsertFileRowWithoutUniqueName ==
    \E r \in BagToSet(reqs) :
        /\ r.pc = "insert"
        /\ \E ok \in BOOLEAN : reqs' = Replace(reqs, r, AfterInsert(r, ok))
        /\ UNCHANGED <<files, docstore, index, next_file_id, objects>>
        /\ UNCHANGED <<queryVars, callVars>>

\* upload_files, lines 82-88, the INSERT of the flush (files_crud.py line
\* 112) with its id taken: the unique index on files.name (models.py line
\* 14) makes it wait, while the other requests run, for as long as an open
\* transaction holds an inserted row of the same name, and fail when the
\* name is committed; otherwise the row is inserted, visible to this
\* session only. After the flush the request goes on, without an await, to
\* download, load and split the stored object
InsertFileRow ==
    \E r \in BagToSet(reqs) :
        /\ r.pc = "insert"
        /\ ~\E t \in BagToSet(reqs) : HoldsFileRow(t) /\ t.name = r.name
        /\ IF \E f \in files : f.name = r.name
           THEN /\ reqs' = Replace(reqs, r, Finished(r, "failed"))
                /\ UNCHANGED files
           ELSE /\ \E ok \in BOOLEAN : reqs' = Replace(reqs, r, AfterInsert(r, ok))
                /\ files' = FilesAfterStage(files, [id |-> r.file_id, name |-> r.name])
        /\ UNCHANGED <<docstore, index, next_file_id, objects>>
        /\ UNCHANGED <<queryVars, callVars>>

\* embed_and_index, rag.py lines 107-124: an embedding failure or a failing
\* index request raise RuntimeError (before any batch, or between two)
IndexFail ==
    \E r \in BagToSet(reqs) :
        /\ r.pc = "index"
        /\ reqs' = Replace(reqs, r, Finished(r, "failed"))
        /\ UNCHANGED <<files, docstore, index, next_file_id, objects>>
        /\ UNCHANGED <<queryVars, callVars>>

\* embed_and_index, rag.py lines 116-120: await vectorstore.async_upsert(...)
\* sends the next batch of the child chunks
UpsertBatch ==
    \E r \in BagToSet(reqs) :
        /\ r.pc = "index"
        /\ LET metadatas == Chunks(r).children
               total == NumBatches(Len(metadatas), UpsertBatchSize)
           IN /\ r.batches < total
              /\ index' = async_upsert_batch(index, metadatas, r.batches, UpsertBatchSize)
              /\ reqs' = Replace(reqs, r,
                            [r EXCEPT !.batches = @ + 1,
                                      !.pc = IF r.batches + 1 = total
                                             THEN "upsert_parents" ELSE "index"])
        /\ UNCHANGED <<files, docstore, next_file_id, objects>>
        /\ UNCHANGED <<queryVars, callVars>>

\* async_upsert_parents_to_docstore, routes.py lines 89-90: one pass of the
\* loop (docstore_crud.py lines 87-109) for the next parent chunk; the pass
\* awaits one SELECT, which sees what is committed by then and what the
\* session has staged, and which may fail; the call returns after the pass
\* for the last chunk
UpsertParent ==
    \E r \in BagToSet(reqs) :
        /\ r.kind = "upload" /\ r.pc = "upsert_parents"
        /\ LET new_entries == Chunks(r).parents
               pass == async_upsert_entry(new_entries[r.entry + 1], docstore, r.staged,
                                          [x \in {r.name} |-> r.file_id], r.saved)
           IN \E ok \in BOOLEAN :
                 reqs' = Replace(reqs, r,
                            IF ~ok \/ pass.raised THEN Finished(r, "failed")
                            ELSE [r EXCEPT !.entry = @ + 1,
                                           !.staged = pass.staged,
                                           !.saved = pass.saved,
                                           !.pc = IF r.entry + 1 = Len(new_entries)
                                                  THEN "commit" ELSE @])
        /\ UNCHANGED <<files, docstore, index, next_file_id, objects>>
        /\ UNCHANGED <<queryVars, callVars>>

\* session.commit(), routes.py line 92: succeeds, or raises and is rolled back
CommitUpload ==
    \E r \in BagToSet(reqs) :
        /\ r.kind = "upload" /\ r.pc = "commit"
        /\ \E ok \in BOOLEAN :
              IF ok
              THEN /\ files' = FilesAfterCommit(files, [id |-> r.file_id,
                                                        name |-> r.name])
                   /\ docstore' = DocstoreAfterCommit(docstore, r.staged)
                   /\ reqs' = Replace(reqs, r, Finished(r, "success"))
              ELSE /\ reqs' = Replace(reqs, r, Finished(r, "failed"))
                   /\ UNCHANGED <<files, docstore>>
        /\ UNCHANGED <<index, next_file_id, objects>>
        /\ UNCHANGED <<queryVars, callVars>>

\* get_async_session, session.py lines 57-59, after the yield: the handler
\* has returned or raised and the async with block is left
CloseSession ==
    \E r \in BagToSet(reqs) :
        /\ r.pc = "exited"
        /\ reqs' = Replace(reqs, r, [r EXCEPT !.pc = "done",
                                              !.session = async_with_exit(r.outcome)])
        /\ UNCHANGED <<files, docstore, index, next_file_id, objects>>
        /\ UNCHANGED <<queryVars, callVars>>

\* the response of a finished request was sent
Release ==
    \E r \in BagToSet(reqs) :
        /\ r.pc = "done"
        /\ reqs' = reqs (-) SetToBag({r})
        /\ UNCHANGED <<files, docstore, index, next_file_id, objects>>
        /\ UNCHANGED <<queryVars, callVars>>

\* delete_file, routes.py lines 109-119: a request to delete the file named
\* name arrives; async_delete_file_row, files_crud.py lines 191-196, SELECTs
\* the File row of that name: without one the answer is "not present", and
\* a SELECT that fails ends the request with status 500
StartDelete ==
    /\ BagCardinality(reqs) < MaxRequests
    /\ \E name \in Names, ok \in BOOLEAN :
          LET r == [NewReq EXCEPT !.kind = "delete", !.name = name]
              found == {f \in files : f.name = name}
          IN reqs' = reqs (+) SetToBag({
                        IF ~ok THEN Finished(r, "failed")
                        ELSE IF found = {} THEN Finished(r, "absent")
                        ELSE [r EXCEPT !.pc = "delete",
                                       !.file_id = (CHOOSE f \in found : TRUE).id]})
    /\ UNCHANGED <<files, docstore, index, next_file_id, objects>>
    /\ UNCHANGED <<queryVars, callVars>>

\* async_delete_file_row, line 200: await session.delete(file)
MarkDeleted ==
    \E r \in BagToSet(reqs) :
        /\ r.kind = "delete" /\ r.pc = "delete"
        /\ \E ok \in BOOLEAN :
              reqs' = Replace(reqs, r,
                         IF ok THEN [r EXCEPT !.pc = "commit",
                                              !.deleted = EntriesOfFile(docstore, r.file_id)]
                         ELSE Finished(r, "failed"))
        /\ UNCHANGED <<files, docstore, index, next_file_id, objects>>
        /\ UNCHANGED <<queryVars, callVars>>

\* async_delete_file_row, lines 201-204: await session.commit() deletes the
\* rows marked as deleted and the File row, or raises (the foreign key, or
\* the database), and the request ends with status 500
CommitDelete ==
    \E r \in BagToSet(reqs) :
        /\ r.kind = "delete" /\ r.pc = "commit"
        /\ LET file == [id |-> r.file_id, name |-> r.name]
               left == DocstoreAfterDelete(docstore, r.deleted)
           IN \E ok \in BOOLEAN :
                 IF ok /\ ~ForeignKeyViolated(files, left, file)
                 THEN /\ files' = FilesAfterDelete(files, file)
                      /\ docstore' = left
                      /\ index' = IndexAfterDelete(index, file)
                      /\ reqs' = Replace(reqs, r, Finished(r, "success"))
                 ELSE /\ reqs' = Replace(reqs, r, Finished(r, "failed"))
                      /\ UNCHANGED <<files, docstore, index>>
        /\ UNCHANGED <<next_file_id, objects>>
        /\ UNCHANGED <<queryVars, callVars>>

\* no query request is being handled
IdleQuery ==
    /\ pc = "idle"
    /\ params = [top_k |-> 1, rerank_top_k |-> 1, rerank |-> FALSE,
                 retrieve_neighbors |-> FALSE, context_relevance |-> FALSE,
                 sources |-> {}]
    /\ hits = << >>
    /\ retrieved_parents = << >>
    /\ relevance = NoRelevance
    /\ response = "none"
    /\ llm_streams = 0
    /\ streamed = 0
    /\ trace = << >>
    /\ loop = NoLoop

\* no function of the library is being called on its own
NoCall == [fn |-> "none"]
NoResult == [kind |-> "none"]

IdleCall ==
    /\ call = NoCall
    /\ result = NoResult

Init ==
    /\ files = {}
    /\ docstore = EmptyBag
    /\ index = NoIndex
    /\ next_file_id = 1
    /\ objects = NoObjects
    /\ reqs = NoRequests
    /\ IdleQuery
    /\ IdleCall

Next ==
    \/ StartUpload \/ PutObject \/ StageFileRow \/ InsertFileRow \/ IndexFail
    \/ UpsertBatch \/ UpsertParent \/ CommitUpload \/ CloseSession \/ Release
    \/ StartDelete \/ MarkDeleted \/ CommitDelete

Spec == Init /\ [][Next]_vars

-----------------------------------------------------------------------------
(* Initial states of the query specifications: the store and the index     *)
(* after file "a" (na parent spans) and then file "b" (nb parent spans)    *)
(* were uploaded and the files in del were deleted again                   *)

IngestedIndex(na, nb) ==
    LET ca == parent_child_splitter(<<[source |-> "a", n |-> na]>>, NoMetadata).children
        cb == parent_child_splitter(<<[source |-> "b", n |-> nb]>>, NoMetadata).children
    IN async_upsert(async_upsert(NoIndex, ca, UpsertBatchSize), cb, UpsertBatchSize)

IngestedFiles(na, nb, del) ==
    {f \in {[id |-> 1, name |-> "a"], [id |-> 2, name |-> "b"]} :
        /\ f.name \notin del
        /\ (f.name = "a" => na > 0)
        /\ (f.name = "b" => nb > 0)}

IngestedDocstore(na, nb, del) ==
    LET pa == parent_child_splitter(<<[source |-> "a", n |-> na]>>, NoMetadata).parents
        pb == parent_child_splitter(<<[source |-> "b", n |-> nb]>>, NoMetadata).parents
        sa == IF "a" \in del THEN EmptyBag
              ELSE async_upsert_parents_to_docstore(pa, EmptyBag, EmptyBag,
                                                    [a |-> 1]).staged
    IN IF "b" \in del THEN sa
       ELSE sa (+) async_upsert_parents_to_docstore(pb, sa, EmptyBag, [b |-> 2]).staged

\* the objects of the two documents; delete_file leaves them in the bucket
IngestedObjects(na, nb) == [name \in Names |-> IF name = "a" THEN na ELSE nb]

IngestedStore ==
    \E na \in 0..MaxParents, nb \in 0..MaxOtherParents, del \in SUBSET Names :
        /\ files = IngestedFiles(na, nb, del)
        /\ docstore = IngestedDocstore(na, nb, del)
        /\ index = IngestedIndex(na, nb)
        /\ objects = IngestedObjects(na, nb)

InitStore ==
    /\ IngestedStore
    /\ next_file_id = 3
    /\ reqs = NoRequests

\* rerank_top_k is read by retrieve() only when rerank is set (rag.py, lines
\* 185-188), so that one value of it stands for all when rerank is not set
InitRequest(start, maxTopK, gates) ==
    /\ pc = start
    /\ params \in [top_k : 1..maxTopK, rerank_top_k : 1..MaxRerankTopK,
                   rerank : BOOLEAN, retrieve_neighbors : BOOLEAN,
                   context_relevance : gates, sources : {{}}]
    /\ params.rerank \/ params.rerank_top_k = 1
    /\ hits = << >>
    /\ retrieved_parents = << >>
    /\ relevance = NoRelevance
    /\ response = "none"
    /\ llm_streams = 0
    /\ streamed = 0
    /\ trace = << >>
    /\ loop = NoLoop

\* RagPipeline.retrieve called on its own
InitRetrieve == InitStore /\ InitRequest("embed", MaxTopK, {TRUE}) /\ IdleCall

NextRetrieve ==
    \/ Embed \/ Search \/ ResolveHit \/ ResolveParents \/ Rerank
    \/ ExpandDoc \/ ExpandNeighbors

SpecRetrieve == InitRetrieve /\ [][NextRetrieve]_vars

\* a chat message: on_message
InitQuery == InitStore /\ InitRequest("on_message", MaxQueryTopK, BOOLEAN) /\ IdleCall

NextQuery ==
    \/ RewriteQuery \/ Embed \/ Search \/ ResolveHit \/ ResolveParents \/ Rerank
    \/ ExpandDoc \/ ExpandNeighbors
    \/ GenerateUngated \/ CheckRelevance \/ StreamResponse \/ StreamToken
    \/ RelayGuidance \/ RelayToken \/ UpdateMessage \/ SendMessage

SpecQuery == InitQuery /\ [][NextQuery]_vars

-----------------------------------------------------------------------------
(* The parent upsert on its own: a caller holds a session and applies      *)
(* async_upsert_parents_to_docstore to the parent chunks of one document,  *)
(* any number of times, committing in between or not                       *)

\* the new_entries of the caller: the parent chunks of its document
NewEntries(r) == parent_child_splitter(<<[source |-> r.name, n |-> r.n]>>, NoMetadata).parents

\* the file_id_map of the caller
file_id_map_of(r) == [x \in {r.name} |-> r.file_id]

\* the store holds a ParentChunk for every parent chunk of r's document
HoldsAllParents(store, r) ==
    \A k \in 0..(r.n - 1) :
        \E row \in BagToSet(store) : row.source = r.name /\ row.parent_id = k

\* the caller calls async_upsert_parents_to_docstore(new_entries, session,
\* file_id_map), docstore_crud.py lines 64-87: the call runs up to the
\* first awaited SELECT
CallUpsert ==
    \E r \in BagToSet(reqs) :
        /\ r.kind = "upsert" /\ r.pc = "idle" /\ r.outcome # "commit_failed"
        /\ r.applied < MaxApplications
        /\ reqs' = Replace(reqs, r,
                      [r EXCEPT !.pc = "upsert_parents", !.entry = 0, !.saved = 0,
                                !.outcome = "none", !.disturbed = FALSE,
                                !.held = HoldsAllParents(docstore (+) r.staged, r)])
        /\ UNCHANGED <<files, docstore, index, next_file_id, objects>>
        /\ UNCHANGED <<queryVars, callVars>>

\* one pass of the loop of async_upsert_parents_to_docstore, lines 87-109,
\* for the next entry: the awaited SELECT sees what is committed by then
\* and what the session has staged, and may fail; a pass that raises ends
\* the call with RuntimeError("Failed to save parents to docstore") and
\* leaves in the session what the passes before it staged; after the pass
\* for the last entry the call returns saved
ApplyUpsert ==
    \E r \in BagToSet(reqs) :
        /\ r.kind = "upsert" /\ r.pc = "upsert_parents"
        /\ LET new_entries == NewEntries(r)
               pass == async_upsert_entry(new_entries[r.entry + 1], docstore, r.staged,
                                          file_id_map_of(r), r.saved)
           IN \E ok \in BOOLEAN :
                 reqs' = Replace(reqs, r,
                            IF ~ok \/ pass.raised
                            THEN [r EXCEPT !.pc = "idle", !.outcome = "raised",
                                           !.entry = 0, !.saved = 0, !.applied = @ + 1]
                            ELSE IF r.entry + 1 = Len(new_entries)
                            THEN [r EXCEPT !.pc = "idle", !.outcome = "returned",
                                           !.entry = 0, !.staged = pass.staged,
                                           !.saved = pass.saved, !.applied = @ + 1]
                            ELSE [r EXCEPT !.entry = @ + 1, !.staged = pass.staged,
                                           !.saved = pass.saved])
        /\ UNCHANGED <<files, docstore, index, next_file_id, objects>>
        /\ UNCHANGED <<queryVars, callVars>>

\* the rows of new_entries with these parent ids, as a session adds them
\* whose file_id_map gives file_id for the source (docstore_crud.py lines
\* 100-107)
RowsOfEntries(r, file_id, ids) ==
    SetToBag({DocstoreRow(file_id, r.name, e.metadata.id, e.text, e.metadata) :
                 e \in {x \in Range(NewEntries(r)) : x.metadata.id \in ids}})

\* an other session that applies the call to the same new_entries commits
\* rows it has added (some of the chunks, at any time: between two passes
\* of the caller's loop too); docstore.file_id REFERENCES files.id
\* (models.py line 35), so its file_id_map names a committed File row: the
\* caller's, once that is committed, or an other
OtherSessionCommits ==
    \E r \in BagToSet(reqs) :
        /\ r.kind = "upsert"
        /\ r.others < MaxOtherCommits
        /\ \E f \in files, ids \in (SUBSET (0..(r.n - 1))) \ {{}} :
              docstore' = DocstoreAfterCommit(docstore, RowsOfEntries(r, f.id, ids))
        /\ reqs' = Replace(reqs, r, [r EXCEPT !.others = @ + 1,
                                              !.disturbed = (@ \/ r.pc = "upsert_parents")])
        /\ UNCHANGED <<files, index, next_file_id, objects>>
        /\ UNCHANGED <<queryVars, callVars>>

\* the caller commits after a call that returned, whatever the call saved
\* (routes.py lines 90-92, rag.py lines 362 and 400): the File row of the
\* session and what the session staged become visible; a commit that fails
\* is rolled back and raises (async_commit_session, files_crud.py lines
\* 144-151), and the caller makes no other call
CommitUpsert ==
    \E r \in BagToSet(reqs) :
        /\ r.kind = "upsert" /\ r.pc = "idle" /\ r.outcome = "returned"
        /\ \E ok \in BOOLEAN :
              IF ok
              THEN /\ files' = FilesAfterCommit(files, [id |-> r.file_id,
                                                        name |-> r.name])
                   /\ docstore' = DocstoreAfterCommit(docstore, r.staged)
                   /\ reqs' = Replace(reqs, r, [r EXCEPT !.staged = EmptyBag])
              ELSE /\ reqs' = Replace(reqs, r, [r EXCEPT !.staged = EmptyBag,
                                                         !.outcome = "commit_failed"])
                   /\ UNCHANGED <<files, docstore>>
        /\ UNCHANGED <<index, next_file_id, objects>>
        /\ UNCHANGED <<queryVars, callVars>>

\* the session is closed; what it staged and did not commit is rolled back
CloseUpsert ==
    /\ \E r \in BagToSet(reqs) : r.kind = "upsert" /\ r.pc = "idle"
    /\ reqs' = NoRequests
    /\ UNCHANGED <<files, docstore, index, next_file_id, objects>>
    /\ UNCHANGED <<queryVars, callVars>>

\* the arguments of the call are drawn here: the parent chunks of the
\* document named name (n parent spans), a session, and a file_id_map that
\* names the committed File row of that name, or else a File row that the
\* session has flushed for it (the sequence has handed out its id)
InitUpsert ==
    /\ IngestedStore
    /\ \E name \in Names, n \in 1..MaxUploadParents :
          LET known == {f \in files : f.name = name}
          IN /\ reqs = SetToBag({[NewReq EXCEPT
                                     !.kind = "upsert", !.pc = "idle",
                                     !.name = name, !.n = n,
                                     !.file_id = IF known = {} THEN 3
                                                 ELSE (CHOOSE f \in known : TRUE).id]})
             /\ next_file_id = IF known = {} THEN 4 ELSE 3
    /\ IdleQuery /\ IdleCall

NextUpsert ==
    CallUpsert \/ ApplyUpsert \/ OtherSessionCommits \/ CommitUpsert \/ CloseUpsert

SpecUpsert == InitUpsert /\ [][NextUpsert]_vars

-----------------------------------------------------------------------------
(* Properties of parent resolution (SpecRetrieve)                          *)

\* the (source, parent_id) key of the hit of rank h
HitKey(h) == <<hits[h].metadata.source, hits[h].metadata.parent_id>>

\* the (source, id) key of a resolved parent record
ParentKey(doc) == <<doc.metadata.source, doc.metadata.id>>

\* the document store holds a ParentChunk with this key
KeyExists(key) ==
    \E r \in BagToSet(docstore) : r.source = key[1] /\ r.parent_id = key[2]

\* ranks at which a key occurs for the first time in the hit list
FirstOccurrences == {h \in 1..Len(hits) : \A g \in 1..(h - 1) : HitKey(g) # HitKey(h)}

\* the resolve step of the request has just ended (retrieved_parents is its
\* result when it returned)
Resolved == trace # << >> /\ trace[Len(trace)] = "resolve"

\* every SELECT of the request was answered by the database
DatabaseAnswered == loop.error # "database"

\* C1: after resolve_parents ran on a hit list (keys may repeat), the result
\* holds exactly one record per distinct key that exists in the document
\* store, and the i-th record is the one of the i-th such key in order of
\* first occurrence in the hit list.
C1_OneRecordPerKeyInFirstSeenOrder ==
    (Resolved /\ pc # "failed") =>
        LET found == {h \in FirstOccurrences : KeyExists(HitKey(h))}
        IN /\ Len(retrieved_parents) = Cardinality(found)
           /\ \A h \in found :
                 LET i == Cardinality({g \in found : g <= h})
                 IN /\ ParentKey(retrieved_parents[i]) = HitKey(h)
                    /\ \E r \in BagToSet(docstore) :
                          /\ <<r.source, r.parent_id>> = HitKey(h)
                          /\ retrieved_parents[i].text = r.text

\* C1 witness: a hit list in which an existing key occurs twice, with an
\* other existing key behind it, was resolved
C1_Witness ==
    /\ Resolved /\ pc # "failed"
    /\ Len(retrieved_parents) >= 2
    /\ \E g, h \in 1..Len(hits) :
          g < h /\ HitKey(g) = HitKey(h) /\ KeyExists(HitKey(h))

\* C6: on a database that answers its SELECTs, resolve_parents never raises;
\* a hit whose key has no ParentChunk is dropped, every hit whose key has one
\* is resolved, and the records keep the rank order of the hits.
C6_MissesAreDroppedNotErrors ==
    (Resolved /\ DatabaseAnswered) =>
        /\ pc # "failed" /\ response # "error"
        /\ {ParentKey(retrieved_parents[i]) : i \in 1..Len(retrieved_parents)}
              = {HitKey(h) : h \in {g \in 1..Len(hits) : KeyExists(HitKey(g))}}
        /\ \A i, j \in 1..Len(retrieved_parents) :
              i < j =>
                 \E g, h \in FirstOccurrences :
                    /\ g < h
                    /\ HitKey(g) = ParentKey(retrieved_parents[i])
                    /\ HitKey(h) = ParentKey(retrieved_parents[j])

\* C6 witness: a hit list with a hit whose parent is gone (its file was
\* deleted after indexing) in front of hits whose parents exist was resolved
C6_Witness ==
    /\ Resolved /\ pc # "failed"
    /\ Len(retrieved_parents) >= 2
    /\ Len(hits) >= 1 /\ ~KeyExists(HitKey(1))
    /\ \E id \in DOMAIN index : index[id].metadata.source = hits[1].metadata.source
    /\ ~\E f \in files : f.name = hits[1].metadata.source

-----------------------------------------------------------------------------
(* Properties of neighbour expansion (SpecRetrieve)                        *)

\* the text of the ParentChunk (source, id) of the document store
ParentText(source, id) ==
    (CHOOSE r \in BagToSet(docstore) : r.source = source /\ r.parent_id = id).text

\* the texts of the ParentChunks of source that exist among the given ids
\* (listed in ascending order), separated by one space
TextsOf(source, ids) ==
    LET present == SelectSeq(ids, LAMBDA k : KeyExists(<<source, k>>))
    IN CASE Len(present) = 0 -> ""
         [] Len(present) = 1 -> ParentText(source, present[1])
         [] Len(present) = 2 -> ParentText(source, present[1]) \o " "
                                \o ParentText(source, present[2])
         [] Len(present) = 3 -> ParentText(source, present[1]) \o " "
                                \o ParentText(source, present[2]) \o " "
                                \o ParentText(source, present[3])

\* the neighbour expansion of retrieve() returns: retrieved_parents is its
\* input, retrieved_parents' its output
ExpandStep == pc = "neighbors" /\ pc' \notin {"neighbors", "failed"}

\* the largest sequence id of the ParentChunks of a source
MaxId(source) ==
    CHOOSE m \in 0..MaxParents :
        /\ KeyExists(<<source, m>>)
        /\ \A k \in 0..MaxParents : KeyExists(<<source, k>>) => k <= m

\* C2: neighbor_expand returns one record per input, in the input's order,
\* and the text of the record for input (source, id) is the texts of the
\* existing ParentChunks of that source with ids id-1, id, id+1, ascending,
\* joined by single spaces (missing neighbours left out, nothing padded).
C2_NeighborExpandText ==
    [][ExpandStep =>
          /\ Len(retrieved_parents') = Len(retrieved_parents)
          /\ \A i \in 1..Len(retrieved_parents) :
                LET md == retrieved_parents[i].metadata
                IN /\ retrieved_parents'[i].metadata.source = md.source
                   /\ retrieved_parents'[i].text
                         = TextsOf(md.source, <<md.id - 1, md.id, md.id + 1>>)
      ]_vars

\* C2 witness: two parents were expanded, the first in the middle of its
\* source (three texts joined), the second at the start (its predecessor is
\* missing and left out)
C2_Witness ==
    /\ trace # << >> /\ trace[Len(trace)] = "neighbors"
    /\ pc # "failed"
    /\ Len(retrieved_parents) = 2
    /\ retrieved_parents[1].text = "a0 a1 a2"
    /\ retrieved_parents[2].text = "a0 a1"

\* the number of ParentChunks neighbor_expand concatenates for (source, id)
\* (the same in every order of the rows)
NeighborCount(source, id) ==
    Len(CHOOSE rows \in NeighborRows(docstore, source, id) : TRUE)

\* C7 as stated: a middle chunk (0 < id < max) is expanded to exactly 3
\* parents and a boundary chunk (id = 0 or id = max) to exactly 2.
C7_BoundaryAlwaysTwo ==
    [][ExpandStep =>
          \A i \in 1..Len(retrieved_parents) :
             LET md == retrieved_parents[i].metadata
             IN NeighborCount(md.source, md.id)
                   = IF 0 < md.id /\ md.id < MaxId(md.source) THEN 3 ELSE 2
      ]_vars

\* C7 amended: a middle chunk (0 < id < max) is expanded to exactly 3
\* parents; a boundary chunk (id = 0 or id = max) to exactly 2 when the
\* source has more than one ParentChunk (max >= 1), and to exactly 1, itself,
\* when it is the only ParentChunk of its source (max = 0). The expanded text
\* is the join of exactly these parents.
C7_NeighborSymmetry ==
    [][ExpandStep =>
          \A i \in 1..Len(retrieved_parents) :
             LET md == retrieved_parents[i].metadata
             IN /\ NeighborCount(md.source, md.id)
                      = IF 0 < md.id /\ md.id < MaxId(md.source) THEN 3
                        ELSE IF MaxId(md.source) >= 1 THEN 2 ELSE 1
                /\ \E rows \in NeighborRows(docstore, md.source, md.id) :
                      retrieved_parents'[i].text
                         = join(" ", [k \in 1..Len(rows) |-> rows[k].text])
      ]_vars

\* C7 witness: a middle chunk, a boundary chunk of the same source and the
\* only chunk of a one-chunk source were expanded
C7_Witness ==
    /\ trace # << >> /\ trace[Len(trace)] = "neighbors"
    /\ pc # "failed"
    /\ \E i, j, k \in 1..Len(retrieved_parents) :
          /\ retrieved_parents[i].text = "a0 a1 a2"
          /\ retrieved_parents[j].text = "a1 a2"
          /\ retrieved_parents[k].text = "b0"

-----------------------------------------------------------------------------
(* Properties of the relevance gate and of the order of steps (SpecQuery)  *)

\* generate_response has returned for a request whose gate is enabled
Gated ==
    /\ params.context_relevance
    /\ pc \in Responding \cup {"failed"}
    /\ trace # << >> /\ trace[Len(trace)] \in {"gate", "generate", "fallback"}

\* C3: with the gate enabled and an integer rating r from the judgment,
\* r in 2..5 makes generate_response return the generation stream (which the
\* request then starts once, and only the provider's error on that stream
\* can fail the request), r = 1 makes it return the guidance message, which
\* is relayed to the end, and the LLM generation stream is never started.
C3_GateBoundary ==
    (Gated /\ relevance.kind = "int") =>
        /\ (relevance.rating \in 2..5 =>
               /\ response = "stream"
               /\ llm_streams = (IF pc = "respond" THEN 0 ELSE 1)
               /\ (pc # "respond" => trace[Len(trace)] = "generate"))
        /\ (relevance.rating = 1 =>
               /\ response = "guidance"
               /\ pc \in Responding
               /\ llm_streams = 0
               /\ (pc # "respond" => trace[Len(trace)] = "fallback")
               /\ (pc \in {"update", "send", "done"} => streamed = GuidanceChars))

\* C3 witness: a request whose judgment was rating 1 has ended with the
\* guidance message
C3_Witness ==
    /\ Gated /\ pc = "done"
    /\ relevance = [kind |-> "int", rating |-> 1]
    /\ response = "guidance"

\* C4 as stated: a judgment without 'rating' or one that does not parse makes
\* generate_response return the guidance message, as rating 1 does, and no
\* generation stream is started.
C4_MalformedJudgmentDeflects ==
    (Gated /\ relevance.kind \in {"no_rating", "unparseable"}) =>
        /\ response = "guidance"
        /\ pc \in Responding
        /\ llm_streams = 0

\* C4, what the code does: a malformed judgment ends the request with
\* RuntimeError("Unable to generate response"), not with the guidance
C4_Witness ==
    /\ Gated /\ pc = "failed"
    /\ relevance.kind \in {"no_rating", "unparseable"}
    /\ response = "error"
    /\ llm_streams = 0

\* the steps of a request with the given flags, in the documented order,
\* ending with final ("generate" or "fallback")
ExpectedSteps(p, final) ==
    <<"rewrite", "embed", "search", "resolve">>
    \o (IF p.rerank THEN <<"rerank">> ELSE << >>)
    \o (IF p.retrieve_neighbors THEN <<"neighbors">> ELSE << >>)
    \o (IF p.context_relevance THEN <<"gate">> ELSE << >>)
    \o <<final>>

IsPrefix(a, b) == Len(a) <= Len(b) /\ SubSeq(b, 1, Len(a)) = a

\* C5: for every combination of the rerank / retrieve_neighbors /
\* context_relevance flags, the steps executed so far are an initial part of:
\* embedding, search, parent resolution, reranking (if enabled), neighbour
\* expansion (if enabled), gate (if enabled), then generation or fallback;
\* a finished request has executed all of them, each once, in this order.
C5_StepsInDocumentedOrder ==
    /\ \E final \in {"generate", "fallback"} : IsPrefix(trace, ExpectedSteps(params, final))
    /\ (pc = "done" => \E final \in {"generate", "fallback"} :
                            trace = ExpectedSteps(params, final))

\* C5 witness: a request with rerank, neighbours and gate all enabled has
\* run to its end
C5_Witness ==
    /\ pc = "done"
    /\ params.rerank /\ params.retrieve_neighbors /\ params.context_relevance
    /\ Len(trace) = 8

-----------------------------------------------------------------------------
(* Properties of upload and delete (Spec)                                  *)

\* the committed ParentChunk rows that belong to the File row with this id
RowsOfFile(id) == {r \in BagToSet(docstore) : r.file_id = id}

\* the committed store holds the File row id together with all n
\* ParentChunk rows of its document
WhollyVisible(id, n) ==
    /\ \E f \in files : f.id = id
    /\ {r.parent_id : r \in RowsOfFile(id)} = 0..(n - 1)
    /\ \A r \in RowsOfFile(id) : CopiesIn(r, docstore) = 1

\* the committed store holds neither the File row id nor any of its rows
WhollyAbsent(id) ==
    /\ ~\E f \in files : f.id = id
    /\ RowsOfFile(id) = {}

\* C8: upload is atomic on the relational store. After an upload request
\* ended in failure (at any step, the commit included) the committed store
\* holds neither its File row nor any of its ParentChunk rows; after it ended
\* in success the store holds the File row with all the ParentChunk rows of
\* the text it loaded (or neither, once the file was deleted); and at no
\* time is a File row visible without chunks, or a chunk without its File row.
C8_UploadAtomic ==
    /\ \A q \in BagToSet(reqs) :
          (q.kind = "upload" /\ q.pc = "done") =>
             IF q.outcome = "success"
             THEN WhollyVisible(q.file_id, q.loaded) \/ WhollyAbsent(q.file_id)
             ELSE q.file_id # 0 => WhollyAbsent(q.file_id)
    /\ \A f \in files : RowsOfFile(f.id) # {}
    /\ \A r \in BagToSet(docstore) : \E f \in files : f.id = r.file_id /\ f.name = r.source

\* C8 witness: one upload has failed after its File row was staged and
\* flushed, an other has succeeded and its file is in the store
C8_Witness ==
    /\ \E q \in BagToSet(reqs) :
          q.kind = "upload" /\ q.pc = "done" /\ q.outcome = "failed" /\ q.file_id # 0
    /\ \E q \in BagToSet(reqs) :
          /\ q.kind = "upload" /\ q.pc = "done" /\ q.outcome = "success"
          /\ q.loaded >= 2
          /\ WhollyVisible(q.file_id, q.loaded)

\* the vector index holds a child vector of this source
IndexHasSource(idx, source) ==
    \E id \in DOMAIN idx : idx[id].metadata.source = source

\* C9: deleting a File cascade-deletes everything derived from it: in the
\* state after delete_file(name) succeeded for an existing File, the
\* document store holds no ParentChunk with source = name and the vector
\* index holds no vector whose payload source = name.
C9_DeleteCascades ==
    [][\A f \in files :
          f \notin files' =>
             /\ ~\E r \in BagToSet(docstore') : r.source = f.name
             /\ ~IndexHasSource(index', f.name)
      ]_vars

\* C9, what the code does: the file was uploaded and deleted again, its
\* ParentChunks are gone and its child vectors are still in the index
C9_Witness ==
    /\ \E q \in BagToSet(reqs) :
          q.kind = "delete" /\ q.pc = "done" /\ q.outcome = "success"
          /\ WhollyAbsent(q.file_id)
    /\ files = {} /\ docstore = EmptyBag
    /\ index # NoIndex

\* no request is in flight
Quiescent == \A q \in BagToSet(reqs) : q.pc = "done"

\* C10: whenever all upload and delete requests so far have completed
\* (uploads that failed after the index upsert included), every child vector
\* in the vector index has a (source, parent_id) for which the document
\* store holds a ParentChunk.
C10_ReferentialIntegrity ==
    Quiescent =>
        \A id \in DOMAIN index :
            KeyExists(<<index[id].metadata.source, index[id].metadata.parent_id>>)

\* C10, what the code does: an upload failed after it had written its child
\* vectors to the index; nothing of it is in the relational store and the
\* vectors are still in the index
C10_Witness ==
    /\ Quiescent
    /\ \E q \in BagToSet(reqs) : q.kind = "upload" /\ q.outcome = "failed" /\ q.file_id # 0
    /\ ~\E q \in BagToSet(reqs) : q.outcome = "success"
    /\ files = {} /\ docstore = EmptyBag
    /\ index # NoIndex

-----------------------------------------------------------------------------
(* Properties of the parent upsert (SpecUpsert)                            *)

\* request r makes a pass of its call in this step and is r2 after it
PassOf(r, r2) ==
    /\ r.kind = "upsert" /\ r2.kind = "upsert"
    /\ r.pc = "upsert_parents"
    /\ r2 # r /\ r2.others = r.others

\* C11: the parent upsert is idempotent. A call that returns leaves the
\* store holding all the parent chunks; a call applied to a store that
\* already holds them (a second application in particular), with no other
\* session writing during the call, adds no row in any of its passes,
\* leaves every existing row as it is and, when it returns, returns a saved
\* count of 0, so the store after two applications equals the store after one.
C11_UpsertIdempotent ==
    [][\A r \in BagToSet(reqs), r2 \in BagToSet(reqs') :
          PassOf(r, r2) =>
             /\ r2.outcome = "returned" => HoldsAllParents(docstore' (+) r2.staged, r2)
             /\ (r.held /\ ~r.disturbed) =>
                    /\ r2.staged = r.staged
                    /\ docstore' = docstore
                    /\ r2.saved = 0
      ]_vars

\* C11 witness: the upsert was applied twice in one session to chunks the
\* store did not hold; the first application staged them, the second found
\* them all, was not disturbed, and returned 0
C11_Witness ==
    \E r \in BagToSet(reqs) :
        /\ r.kind = "upsert" /\ r.applied = 2
        /\ r.pc = "idle" /\ r.outcome = "returned"
        /\ r.held /\ ~r.disturbed
        /\ r.saved = 0
        /\ BagCardinality(r.staged) = r.n /\ r.n >= 2

\* C12: (source, parent_id) is a unique key of the committed document store
\* in every reachable state, under every interleaving of concurrent uploads
\* (of the same name too) and deletes (followed by re-uploads too): no two
\* committed ParentChunk rows have the same (source, parent_id).
C12_UniqueParentKey ==
    \A r \in BagToSet(docstore) :
        /\ CopiesIn(r, docstore) = 1
        /\ \A t \in BagToSet(docstore) :
              (t.source = r.source /\ t.parent_id = r.parent_id) => t = r

\* C12 witness: two uploads of the same name were in flight together; one
\* has committed its File row and ParentChunks, the other has passed the
\* name check before that, has put its object and taken the earlier id of
\* the two for its INSERT, which has yet to be answered
C12_Witness ==
    \E q \in BagToSet(reqs), f \in files :
        /\ q.pc = "insert" /\ q.name = f.name
        /\ q.file_id < f.id
        /\ RowsOfFile(f.id) # {}

\* the upload requests that arrive in this step (their handler has run
\* the name check: it goes on to the object-storage put, or has ended)
Arrived == {q \in BagToSet(reqs') : CopiesIn(q, reqs') > CopiesIn(q, reqs)
                                    /\ BagCardinality(reqs') > BagCardinality(reqs)}

\* C13: an upload whose file name is the name of a committed File is
\* rejected at once, with the error that names the file, before the object
\* is put, the text chunked, embedded, indexed or written to the document
\* store: the File table, the document store and the vector index are left
\* as they were, and no upload gets past the name check with a committed
\* name. The error that names the file is raised for a committed name only
\* (an upload without a name is refused with the other error of the check,
\* "No file provided."), and by the name check only: a handler raises it
\* in the step in which its request arrives.
C13_DuplicateNameRejectedFirst ==
    [][/\ \A q \in Arrived :
             /\ (q.kind = "upload" /\ \E f \in files : f.name = q.name) =>
                   q.outcome \in {"rejected", "failed"}
             /\ q.outcome = "rejected" =>
                   /\ \E f \in files : f.name = q.name
                   /\ q.pc = "exited" /\ q.file_id = 0
                   /\ q.staged = EmptyBag /\ q.batches = 0
                   /\ files' = files /\ docstore' = docstore
                   /\ index' = index /\ next_file_id' = next_file_id
                   /\ objects' = objects
             /\ q.pc = "put" => ~\E f \in files : f.name = q.name
       /\ \A q \in BagToSet(reqs') :
             (/\ q.outcome = "rejected" /\ q.pc = "exited"
              /\ CopiesIn(q, reqs') > CopiesIn(q, reqs))
                => q \in Arrived
      ]_vars

\* C13 witness: an upload of a committed name was rejected next to the
\* file's rows and vectors
C13_Witness ==
    \E q \in BagToSet(reqs), f \in files :
        /\ q.outcome = "rejected" /\ q.name = f.name
        /\ RowsOfFile(f.id) # {}
        /\ IndexHasSource(index, f.name)

\* the service handles upload and delete requests on a store that starts
\* empty, or one retrieval, next to delete requests, on the store that
\* holds the two documents
InitSessions ==
    \/ Init
    \/ /\ InitStore
       /\ files = IngestedFiles(MaxUploadParents, MaxOtherParents, {})
       /\ objects = IngestedObjects(MaxUploadParents, MaxOtherParents)
       /\ InitRequest("embed", MaxQueryTopK, {TRUE})
       /\ IdleCall

NextSessions == Next \/ NextRetrieve

SpecSessions == InitSessions /\ [][NextSessions]_vars

\* C15: database access is scoped per request. An upload or a delete holds
\* the session it was given for as long as its handler runs, and once the
\* handler has returned (success, file not present) or raised (no name,
\* rejected name, failure of any later step, failed commit) and the
\* dependency that yielded the session has been resumed, the session is
\* closed: no session is open for a request that has ended. retrieve holds
\* a session inside its two blocks only, the parent lookup and the
\* neighbour lookup: none before, between or after them, whether the block
\* was left by its return or by the exception of a SELECT, and so none
\* once retrieve has returned or raised.
C15_NoSessionOutlivesItsRequest ==
    /\ \A q \in BagToSet(reqs) :
          /\ q.pc = "done" => q.session = "closed"
          /\ q.pc # "done" => q.session = "open"
    /\ loop.session = "open" <=> pc \in {"resolve", "neighbors"}
    /\ pc \in {"retrieved", "failed"} => loop.session \in {"none", "closed"}

\* C15 witness: requests have ended on a normal return and on an
\* exception: a delete has deleted its file and its session is closed, a
\* second delete has raised at its commit and its session is closed, and a
\* retrieval has raised in the SELECT of its neighbour lookup, after the
\* parent lookup, and holds no session
C15_Witness ==
    /\ \E q \in BagToSet(reqs) :
          /\ q.kind = "delete" /\ q.pc = "done" /\ q.outcome = "success"
          /\ q.session = "closed"
    /\ \E q \in BagToSet(reqs) :
          /\ q.kind = "delete" /\ q.pc = "done" /\ q.outcome = "failed"
          /\ q.file_id # 0 /\ q.session = "closed"
    /\ pc = "failed" /\ trace[Len(trace)] = "neighbors"
    /\ loop.error = "database" /\ loop.session = "closed"

-----------------------------------------------------------------------------
(* Properties of the gate and of failures on the query path (SpecQuery)    *)

\* how many times the step was executed
RECURSIVE Count(_, _)
Count(step, steps) ==
    IF steps = << >> THEN 0
    ELSE (IF steps[Len(steps)] = step THEN 1 ELSE 0)
         + Count(step, SubSeq(steps, 1, Len(steps) - 1))

\* C16 as stated: the gate is a one-step state machine without retries. In
\* a request with the gate enabled the judgment is requested at most once,
\* and once it was requested the request is in one of the two terminal
\* states Proceed (the generation stream) or Deflect (the guidance message)
\* and stays there.
C16_GateIsOneStepProceedOrDeflect ==
    params.context_relevance =>
        /\ Count("gate", trace) <= 1
        /\ Count("gate", trace) = 1 =>
              /\ response \in {"stream", "guidance"}
              /\ pc \in Responding \/ (pc = "failed" /\ trace[Len(trace)] = "generate")

\* C16, what the code does: the judgment was requested once, and the request
\* has ended in a third state, the RuntimeError of generate_response
C16_Witness ==
    /\ params.context_relevance
    /\ Count("gate", trace) = 1
    /\ relevance.kind # "int"
    /\ response = "error" /\ pc = "failed"

\* the steps of retrieve that the claim names
FatalSteps == {"embed", "search", "rerank"}

\* C17: a failure of the embedding, of the index search or of the reranker
\* is fatal for the request and is not retried. Each of embed, search and
\* rerank is invoked at most once in a request; when one of them fails,
\* retrieve raises (the request is in its failed state with the error) and
\* so returns nothing to on_message: whatever the local of retrieve held
\* when the step failed, no judgment was requested on it, no generation
\* stream was opened and nothing was relayed to the user. No later step
\* runs: the failed step is the last step of the request and the request
\* does not move again. The reranker fails for the batch as a whole: the
\* request does not go on with a part of the documents.
C17_RetrievalFailureIsFatal ==
    /\ [](/\ \A step \in FatalSteps : Count(step, trace) <= 1
          /\ response = "error" <=> pc = "failed"
          /\ (pc = "failed" /\ trace[Len(trace)] \in FatalSteps) =>
                /\ llm_streams = 0
                /\ streamed = 0
                /\ relevance = NoRelevance
                /\ \A later \in {"neighbors", "gate", "generate", "fallback"} :
                      Count(later, trace) = 0)
    /\ [][pc # "failed"]_vars

\* C17 witness: the reranker failed on a batch of two or more resolved
\* documents; the request has ended with the error, the documents are still
\* in the local of retrieve, none of them ranked or dropped, and nothing
\* was generated from them
C17_Witness ==
    /\ pc = "failed" /\ response = "error"
    /\ trace[Len(trace)] = "rerank"
    /\ Len(retrieved_parents) >= 2
    /\ llm_streams = 0 /\ streamed = 0

\* the position of the first execution of the step (0: never executed)
FirstAt(step, steps) ==
    IF \E i \in DOMAIN steps : steps[i] = step
    THEN CHOOSE i \in DOMAIN steps : steps[i] = step /\ \A j \in 1..(i - 1) : steps[j] # step
    ELSE 0

\* C18 as stated: the semantic cache is consulted before retrieval and
\* updated after generation. A request that has searched the index has
\* looked the query up in the cache before, and a request whose generation
\* has completed after a cache miss has stored a CacheEntry.
C18_CacheConsultedAndUpdated ==
    /\ FirstAt("search", trace) # 0 =>
          /\ FirstAt("cache_lookup", trace) # 0
          /\ FirstAt("cache_lookup", trace) < FirstAt("search", trace)
    /\ (pc = "done" /\ response = "stream") =>
          FirstAt("cache_store", trace) > FirstAt("generate", trace)

\* C18, what the code does: a request has gone through search and
\* generation to its end without a cache lookup and without a cache store
C18_Witness ==
    /\ pc = "done" /\ response = "stream" /\ llm_streams = 1
    /\ FirstAt("search", trace) # 0 /\ FirstAt("generate", trace) # 0
    /\ FirstAt("cache_lookup", trace) = 0
    /\ FirstAt("cache_store", trace) = 0

-----------------------------------------------------------------------------
(* Calls of library functions on their own                                 *)

\* nothing was ingested and no request is running
EmptyStore ==
    /\ files = {}
    /\ docstore = EmptyBag
    /\ index = NoIndex
    /\ next_file_id = 1
    /\ objects = NoObjects
    /\ reqs = NoRequests

-----------------------------------------------------------------------------
(* Rerank.rerank and Rerank.get_ranked_docs called on a list of candidates *)

Texts == {"p", "q"}

\* the lists of at most MaxCandidates documents
CandidateLists ==
    UNION {[1..n -> {[text |-> t] : t \in Texts}] : n \in 0..MaxCandidates}

\* what rerank_model.rank may hand back for n documents: one entry
\* {corpus_id, score} per document. The order of the list is the library's
\* (it sorts by descending score); Rerank.rerank is called here on a list
\* in any order, so that what it does to the order is seen
RankReturns(n) ==
    {ranked \in [1..n -> [corpus_id : 0..(n - 1), score : 0..MaxScore]] :
        \A i, j \in 1..n : i # j => ranked[i].corpus_id # ranked[j].corpus_id}

\* the list is in descending order of score
Descending(scores) ==
    \A i, j \in DOMAIN scores : i < j => scores[i].score >= scores[j].score

\* scores = reranker.rerank(query, docs, top_k, get_all): no documents
\* return [] at line 51; otherwise the one rank call of line 56 returns its
\* list, or raises and rerank raises RuntimeError (lines 57-59)
CallRerank ==
    /\ call.fn = "rerank" /\ call.pc = "start"
    /\ \E ok \in IF Len(call.docs) = 0 THEN {TRUE} ELSE BOOLEAN :
          IF ok
          THEN /\ \E ranked \in RankReturns(Len(call.docs)) :
                     result' = [kind |-> "scores", ranked |-> ranked,
                                scores |-> rerank(call.docs, ranked, call.top_k,
                                                  call.get_all),
                                rank_calls |-> rank_calls(call.docs),
                                docs |-> << >>]
               /\ call' = [call EXCEPT !.pc = "ranked"]
          ELSE /\ result' = [kind |-> "raised", ranked |-> << >>, scores |-> << >>,
                             rank_calls |-> rank_calls(call.docs), docs |-> << >>]
               /\ call' = [call EXCEPT !.pc = "raised"]
    /\ UNCHANGED <<storeVars, queryVars>>

\* reranker.get_ranked_docs(docs, scores)
CallGetRankedDocs ==
    /\ call.fn = "rerank" /\ call.pc = "ranked"
    /\ result' = [result EXCEPT !.kind = "docs",
                                !.docs = get_ranked_docs(call.docs, result.scores)]
    /\ call' = [call EXCEPT !.pc = "done"]
    /\ UNCHANGED <<storeVars, queryVars>>

InitRerank ==
    /\ EmptyStore /\ IdleQuery
    /\ call \in [fn : {"rerank"}, pc : {"start"}, docs : CandidateLists,
                 top_k : (-MaxCandidates)..MaxCandidates, get_all : BOOLEAN]
    /\ result = NoResult

NextRerank == CallRerank \/ CallGetRankedDocs

SpecRerank == InitRerank /\ [][NextRerank]_vars

\* the candidate indexes of the output
RankedIds(out) == {out[i].corpus_id : i \in DOMAIN out}

-----------------------------------------------------------------------------
(* RagPipeline.retrieve called with a list of sources                      *)

InitFiltered ==
    /\ InitStore /\ IdleCall
    /\ pc = "embed"
    /\ params \in [top_k : 1..MaxFilteredTopK, rerank_top_k : 1..MaxRerankTopK,
                   rerank : BOOLEAN, retrieve_neighbors : BOOLEAN,
                   context_relevance : {TRUE}, sources : (SUBSET Names) \ {{}}]
    /\ params.rerank \/ params.rerank_top_k = 1
    /\ hits = << >>
    /\ retrieved_parents = << >>
    /\ relevance = NoRelevance
    /\ response = "none"
    /\ llm_streams = 0
    /\ streamed = 0
    /\ trace = << >>
    /\ loop = NoLoop

SpecFiltered == InitFiltered /\ [][NextRetrieve]_vars

-----------------------------------------------------------------------------
(* QdrantStore used on its own: upsert called for the child chunks of one  *)
(* file after the other (rag_pipeline.py line 243), and clear              *)

\* the payload of n child chunks of a file
Metadatas(source, n) ==
    [i \in 1..n |-> [text |-> "c", metadata |-> [source |-> source, child_id |-> i - 1]]]

\* the calls of upsert: the file, the number of its points, the batch size,
\* and the number of the call
UpsertCalls(calls) ==
    [fn : {"upsert"}, pc : {"sending"}, source : Names, n : 0..MaxPoints,
     upsert_batch_size : 1..MaxBatchSize, calls : {calls}]

\* one pass of the loop of QdrantStore.upsert, lines 100-113: the next
\* batch is sent (result.requests are the requests sent so far). When the
\* request is answered its points are in the collection, and the call
\* returns after the last one; when client.upsert raises, the error is
\* logged and raised again: the points of the earlier requests stay, those
\* of this and of the later batches are not in the collection
SendBatch ==
    /\ call.fn = "upsert" /\ call.pc = "sending"
    /\ LET points == Points(Metadatas(call.source, call.n))
           sent == Len(result.requests)
           batch_points == Batch(points, sent, call.upsert_batch_size)
       IN /\ sent < NumBatches(call.n, call.upsert_batch_size)
          /\ result' = [result EXCEPT !.requests = Append(@, batch_points)]
          /\ \E ok \in BOOLEAN :
                IF ok
                THEN /\ index' = upsert_batch(index, batch_points)
                     /\ call' = [call EXCEPT !.pc =
                                    IF sent + 1 = NumBatches(call.n, call.upsert_batch_size)
                                    THEN "returned" ELSE "sending"]
                ELSE /\ UNCHANGED index
                     /\ call' = [call EXCEPT !.pc = "raised"]
    /\ UNCHANGED <<files, docstore, next_file_id, objects, reqs>>
    /\ UNCHANGED queryVars

\* QdrantStore.upsert with no point: the loop body never runs
SendNothing ==
    /\ call.fn = "upsert" /\ call.pc = "sending"
    /\ NumBatches(call.n, call.upsert_batch_size) = 0
    /\ call' = [call EXCEPT !.pc = "returned"]
    /\ UNCHANGED <<storeVars, queryVars, result>>

\* upsert is called again, for the chunks of an other file or of the same,
\* after the call before returned or raised
UpsertAgain ==
    /\ call.fn = "upsert" /\ call.pc \in {"returned", "raised"}
    /\ call.calls < MaxCalls
    /\ call' \in UpsertCalls(call.calls + 1)
    /\ result' = [kind |-> "requests", requests |-> << >>]
    /\ UNCHANGED <<storeVars, queryVars>>

\* QdrantStore.clear, lines 226-232: the collection is deleted with all its
\* points; nothing is called on the store after that
Clear ==
    /\ call.fn = "upsert" /\ call.pc \in {"returned", "raised"}
    /\ index' = NoIndex
    /\ call' = [fn |-> "clear", pc |-> "returned"]
    /\ UNCHANGED <<files, docstore, next_file_id, objects, reqs>>
    /\ UNCHANGED <<queryVars, result>>

InitBatches ==
    /\ EmptyStore /\ IdleQuery
    /\ call \in UpsertCalls(1)
    /\ result = [kind |-> "requests", requests |-> << >>]

NextBatches == SendBatch \/ SendNothing \/ UpsertAgain \/ Clear

SpecBatches == InitBatches /\ [][NextBatches]_vars

\* C14: point ids are never reused by a later upsert call, so ingesting one
\* file leaves the vectors of the others alone: a request of an upsert call
\* leaves every point that is in the collection there, with its payload.
C14_LaterUpsertKeepsEarlierPoints ==
    [][(call.fn = "upsert" /\ call'.fn = "upsert") =>
          \A id \in DOMAIN index :
             id \in DOMAIN index' /\ index'[id] = index[id]
      ]_vars

\* C14, what the code does: file a was ingested with three points and then
\* file b with two; the points 1 and 2 are those of b, and of the vectors
\* of a only the third is left
C14_Witness ==
    /\ call.fn = "upsert" /\ call.pc = "returned" /\ call.calls = 2
    /\ call.source = "b" /\ call.n = 2
    /\ DOMAIN index = 1..3
    /\ index[1].metadata.source = "b" /\ index[2].metadata.source = "b"
    /\ index[3].metadata.source = "a"

\* ceil(n / b)
Ceil(n, b) == CHOOSE k \in 0..n : k * b >= n /\ \A j \in 0..(k - 1) : j * b < n

\* the point ids of the requests, in the order in which they were sent
RECURSIVE SentIds(_)
SentIds(requests) ==
    IF requests = << >> THEN << >>
    ELSE SentIds(SubSeq(requests, 1, Len(requests) - 1))
         \o [i \in 1..Len(requests[Len(requests)]) |-> requests[Len(requests)][i].id]

\* the point ids of the requests that were answered: all the requests
\* sent, but the last one of a call that raised
AnsweredIds(c, requests) ==
    SentIds(IF c.pc = "raised" THEN SubSeq(requests, 1, Len(requests) - 1)
            ELSE requests)

\* C24: the upsert of n points with batch size b sends its points in
\* requests issued one after the other, each with at least one and at most
\* b points; the ids sent so far are 1, 2, 3, ... in ascending order
\* without a gap or a repetition, and a request is sent only after the one
\* before was answered: the points of the requests before the last are in
\* the collection. When the call returns, ceil(n / b) requests were sent
\* that hold every point once; a call that raised stopped at the request
\* that failed and sent none after it.
C24_BatchesSequentialAndComplete ==
    call.fn = "upsert" =>
        LET requests == result.requests
            ids == SentIds(requests)
            answered == AnsweredIds(call, requests)
        IN /\ \A r \in DOMAIN requests :
                 Len(requests[r]) \in 1..call.upsert_batch_size
           /\ ids = [i \in 1..Len(ids) |-> i]
           /\ Len(requests) <= Ceil(call.n, call.upsert_batch_size)
           /\ \A i \in DOMAIN answered :
                 /\ i \in DOMAIN index
                 /\ index[i] = Metadatas(call.source, call.n)[i]
           /\ call.pc = "returned" =>
                 /\ Len(requests) = Ceil(call.n, call.upsert_batch_size)
                 /\ Len(answered) = call.n
           /\ call.pc = "raised" =>
                 /\ Len(requests) >= 1
                 /\ Len(answered) < call.n

\* C24 witness: seven points in batches of three were sent as 3 + 3 + 1
\* and are in the collection
C24_Witness ==
    /\ call.fn = "upsert" /\ call.pc = "returned"
    /\ DOMAIN index = 1..7
    /\ call.n = 7 /\ call.upsert_batch_size = 3
    /\ Len(result.requests) = 3
    /\ Len(result.requests[3]) = 1

-----------------------------------------------------------------------------
(* TextChunker.parent_child_splitter called on a batch of texts            *)

\* the batches of at most MaxTexts (source, text) pairs, as load_files gives
\* them: one pair per file name; a text has 0..MaxParents parent spans
TextBatches ==
    {b \in UNION {[1..k -> [source : Names, n : 0..MaxParents]] : k \in 0..MaxTexts} :
        \A i, j \in DOMAIN b : i # j => b[i].source # b[j].source}

\* the base_metadata of a call: none, or a dict with a key of the caller
BaseMetadatas == {NoMetadata, [lang |-> "en"]}

\* one pass of the loop of parent_child_splitter, lines 90-96: the next
\* (source, text) pair is split and its chunks are appended
SplitNextText ==
    /\ call.fn = "parent_child_splitter" /\ call.pc = "splitting"
    /\ call.t < Len(call.texts)
    /\ LET chunks == parent_child_splitter(SubSeq(call.texts, 1, call.t + 1),
                                            call.base_metadata)
       IN result' = [kind |-> "chunks", parents |-> chunks.parents,
                     children |-> chunks.children]
    /\ call' = [call EXCEPT !.t = @ + 1]
    /\ UNCHANGED <<storeVars, queryVars>>

\* parent_child_splitter, line 98: return parents, children
ReturnChunks ==
    /\ call.fn = "parent_child_splitter" /\ call.pc = "splitting"
    /\ call.t = Len(call.texts)
    /\ call' = [call EXCEPT !.pc = "returned"]
    /\ UNCHANGED <<storeVars, queryVars, result>>

InitChunker ==
    /\ EmptyStore /\ IdleQuery
    /\ call \in [fn : {"parent_child_splitter"}, pc : {"splitting"}, t : {0},
                 texts : TextBatches, base_metadata : BaseMetadatas]
    /\ result = [kind |-> "chunks", parents |-> << >>, children |-> << >>]

NextChunker == SplitNextText \/ ReturnChunks

SpecChunker == InitChunker /\ [][NextChunker]_vars

\* the chunks of the given source, in the order in which they were produced
RECURSIVE OfSource(_, _)
OfSource(chunks, source) ==
    IF chunks = << >> THEN << >>
    ELSE OfSource(SubSeq(chunks, 1, Len(chunks) - 1), source)
         \o (IF chunks[Len(chunks)].metadata.source = source
             THEN <<chunks[Len(chunks)]>> ELSE << >>)

\* C25: sequence ids are contiguous. For every source the chunker has
\* split, the ParentChunks of that source carry, in split order, the ids
\* 0, 1, ..., n - 1, where n is the number of parent spans of the source.
C25_SequenceIdsContiguous ==
    call.fn = "parent_child_splitter" =>
        \A t \in 1..call.t :
            LET mine == OfSource(result.parents, call.texts[t].source)
            IN /\ Len(mine) = call.texts[t].n
               /\ \A i \in DOMAIN mine : mine[i].metadata.id = i - 1

\* C25 witness: a batch of two sources, of three and of two parent spans,
\* was split
C25_Witness ==
    /\ call.fn = "parent_child_splitter" /\ call.pc = "returned"
    /\ Len(call.texts) = 2
    /\ call.texts[1].n = 3 /\ call.texts[2].n = 2
    /\ Len(result.parents) = 5

\* C26 as stated: the child chunks returned by one call of
\* parent_child_splitter carry pairwise distinct child_id values.
C26_ChildIdsUniqueInBatch ==
    call.fn = "parent_child_splitter" =>
        \A i, j \in DOMAIN result.children :
            i # j => result.children[i].metadata.child_id
                     # result.children[j].metadata.child_id

\* C26, what the code does: in a batch of two sources the first child chunk
\* of each source has child_id 0
C26_Witness ==
    /\ call.fn = "parent_child_splitter" /\ call.pc = "returned"
    /\ Len(call.texts) = 2
    /\ \E i, j \in DOMAIN result.children :
          /\ result.children[i].metadata.source # result.children[j].metadata.source
          /\ result.children[i].metadata.child_id = 0
          /\ result.children[j].metadata.child_id = 0

-----------------------------------------------------------------------------
(* LLM.stream and LLM.async_stream: src/src/llm.py                         *)
(* The provider stream is a list of chunks (the delta content of each,     *)
(* "" for a chunk without content) that ends normally or by raising.       *)

Contents == {"", "u", "v"}

ProviderStreams ==
    [chunks : UNION {[1..k -> Contents] : k \in 0..MaxFragments}, raises : BOOLEAN]

\* what the async generator puts on the queue
Item(text) == [kind |-> "chunk", text |-> text]
Completion == [kind |-> "none", text |-> ""]     \* queue.put(None)

\* variant of the generator that yields every chunk's content
yields_every_chunk(content) == TRUE

\* LLM.stream, lines 32-33: if content := chunk.choices[0].delta.content: yield
yields(content) == content # ""

\* LLM.stream, lines 24-34, consumed by a for loop: the consumer takes the
\* next chunk of the provider; a chunk with content is handed to it, the end
\* of the provider stream ends the loop, an error of the provider is raised
\* in the consumer
StreamNext ==
    /\ call.fn = "stream" /\ call.pc = "consuming"
    /\ IF call.read < Len(call.provider.chunks)
       THEN LET content == call.provider.chunks[call.read + 1]
            IN /\ call' = [call EXCEPT !.read = @ + 1]
               /\ result' = IF yields(content)
                            THEN [result EXCEPT !.delivered = Append(@, content)]
                            ELSE result
       ELSE /\ call' = [call EXCEPT !.pc = "returned"]
            /\ result' = [result EXCEPT !.outcome =
                             IF call.provider.raises THEN "error" ELSE "ended"]
    /\ UNCHANGED <<storeVars, queryVars>>

\* async_stream, lines 46-49, in the executor thread: _stream takes the next
\* fragment of self.stream and schedules queue.put(chunk) on the loop; at
\* the end of the stream it schedules queue.put(None); an error of the
\* provider ends the thread (the future of run_in_executor is dropped)
ThreadNext ==
    /\ call.fn = "async_stream" /\ call.thread = "running"
    /\ IF call.read < Len(call.provider.chunks)
       THEN LET content == call.provider.chunks[call.read + 1]
            IN call' = [call EXCEPT !.read = @ + 1,
                                    !.scheduled = IF yields(content)
                                                  THEN Append(@, Item(content)) ELSE @]
       ELSE call' = IF call.provider.raises
                    THEN [call EXCEPT !.thread = "raised"]
                    ELSE [call EXCEPT !.thread = "finished",
                                      !.scheduled = Append(@, Completion)]
    /\ UNCHANGED <<storeVars, queryVars, result>>

\* the event loop runs the coroutines handed over by
\* run_coroutine_threadsafe in the order in which they were handed over;
\* the queue is unbounded, so a put never waits
LoopRunsPut ==
    /\ call.fn = "async_stream"
    /\ call.scheduled # << >>
    /\ call' = [call EXCEPT !.scheduled = Tail(@),
                            !.queue = Append(@, Head(call.scheduled))]
    /\ UNCHANGED <<storeVars, queryVars, result>>

\* async_stream, lines 54-58: chunk = await queue.get(); None ends the
\* generator, any other chunk is yielded
ConsumerGets ==
    /\ call.fn = "async_stream" /\ call.pc = "consuming"
    /\ call.queue # << >>
    /\ LET chunk == Head(call.queue)
       IN IF chunk = Completion
          THEN /\ call' = [call EXCEPT !.queue = Tail(@), !.pc = "returned"]
               /\ result' = [result EXCEPT !.outcome = "ended"]
          ELSE /\ call' = [call EXCEPT !.queue = Tail(@)]
               /\ result' = [result EXCEPT !.delivered = Append(@, chunk.text)]
    /\ UNCHANGED <<storeVars, queryVars>>

InitStream ==
    /\ EmptyStore /\ IdleQuery
    /\ call \in [fn : {"stream", "async_stream"}, pc : {"consuming"},
                 provider : ProviderStreams, read : {0},
                 thread : {"running"}, scheduled : {<< >>}, queue : {<< >>}]
    /\ result = [kind |-> "stream", delivered |-> << >>, outcome |-> "none"]

NextStream == StreamNext \/ ThreadNext \/ LoopRunsPut \/ ConsumerGets

SpecStream == InitStream /\ [][NextStream]_vars

\* the executor thread, the event loop and the consumer each go on when
\* they can
SpecStreamLive == SpecStream /\ WF_vars(NextStream)

\* the fragments of the provider stream that have text
RECURSIVE Fragments(_)
Fragments(chunks) ==
    IF chunks = << >> THEN << >>
    ELSE Fragments(SubSeq(chunks, 1, Len(chunks) - 1))
         \o (IF chunks[Len(chunks)] # "" THEN <<chunks[Len(chunks)]>> ELSE << >>)

\* C28: the stream relayed to the caller is finite and in arrival order.
\* What stream and async_stream have handed to the consumer is at any time
\* an initial part of the non-empty fragments of the provider, in the
\* provider's order; when the sequence has ended it is all of them, and the
\* sequence of a provider stream that ends normally does end.
C28_StreamInArrivalOrder ==
    /\ [](call.fn \in {"stream", "async_stream"} =>
            /\ IsPrefix(result.delivered, Fragments(call.provider.chunks))
            /\ result.outcome # "none" =>
                  result.delivered = Fragments(call.provider.chunks)
            /\ result.outcome = "ended" => ~call.provider.raises)
    /\ (~call.provider.raises => <>(result.outcome = "ended"))

\* C28 witness: async_stream has relayed two fragments of a provider stream
\* of three chunks, one of them without content, and has ended
C28_Witness ==
    /\ call.fn = "async_stream" /\ result.outcome = "ended"
    /\ Len(call.provider.chunks) = 3
    /\ result.delivered = <<"u", "v">>

\* C29 as stated: async_stream always terminates. Also when the provider
\* stream raises in the executor thread after k fragments, the consumer
\* finishes, by the end of the stream or by an error.
C29_AsyncStreamTerminates ==
    call.fn = "async_stream" => <>(call.pc = "returned")

\* C29, what the code does: the provider has raised, the thread has ended
\* without the completion marker, the consumer has received the k fragments
\* and waits on the empty queue
C29_Witness ==
    /\ call.fn = "async_stream" /\ call.provider.raises
    /\ call.thread = "raised"
    /\ call.scheduled = << >> /\ call.queue = << >>
    /\ call.pc = "consuming" /\ result.outcome = "none"
    /\ Len(result.delivered) = 2 /\ result.delivered = Fragments(call.provider.chunks)

-----------------------------------------------------------------------------
(* The sync and the async parent upsert applied to the same parent chunks, *)
(* file_id_map and document store, each on a session of its own            *)

\* file_id_map of the caller: the File row of the name, committed or staged
FileIdMap(name) ==
    LET known == {f \in files : f.name = name}
    IN [x \in {name} |-> IF known = {} THEN next_file_id
                         ELSE (CHOOSE f \in known : TRUE).id]

NotCalled == [raised |-> FALSE, staged |-> EmptyBag, saved |-> -1]

\* upsert_parents_to_docstore(parent_chunks, session, file_id_map)
CallSyncUpsert ==
    /\ call.fn = "upsert_parents" /\ ~call.sync_done
    /\ result' = [result EXCEPT !.sync =
                     upsert_parents_to_docstore(parent_child_splitter(call.texts, NoMetadata).parents,
                                                docstore, EmptyBag, FileIdMap(call.name))]
    /\ call' = [call EXCEPT !.sync_done = TRUE]
    /\ UNCHANGED <<storeVars, queryVars>>

\* the awaited SELECT of the pass for this entry (docstore_crud.py lines
\* 91-96) has failed: the call has raised at the entry although the pass on
\* what the SELECT would have seen does not raise
SelectFailed(c, locals) ==
    /\ locals.raised /\ c.async_entry >= 1
    /\ ~async_upsert_entry(parent_child_splitter(c.texts, NoMetadata).parents[c.async_entry],
                           docstore, locals.staged, FileIdMap(c.name),
                           locals.saved).raised

\* await async_upsert_parents_to_docstore(parent_chunks, session,
\* file_id_map), docstore_crud.py lines 87-115: one pass of the loop, for
\* the next entry, with its awaited SELECT (lines 91-96), which may fail
\* (SQLAlchemyError, caught at lines 112-115 and raised as RuntimeError
\* with what the passes before it staged and counted); the call ends with
\* the pass that raises or with the pass for the last entry, and without a
\* pass when there is no entry
CallAsyncUpsert ==
    /\ call.fn = "upsert_parents" /\ ~call.async_done
    /\ LET new_entries == parent_child_splitter(call.texts, NoMetadata).parents
           locals == IF call.async_entry = 0 THEN UpsertLocals(FALSE, EmptyBag, 0)
                     ELSE result.async
       IN IF new_entries = << >>
          THEN /\ result' = [result EXCEPT !.async = locals]
               /\ call' = [call EXCEPT !.async_done = TRUE]
          ELSE LET pass == async_upsert_entry(new_entries[call.async_entry + 1],
                                              docstore, locals.staged,
                                              FileIdMap(call.name), locals.saved)
               IN \E ok \in BOOLEAN :
                     LET after == IF ok THEN pass
                                  ELSE UpsertLocals(TRUE, locals.staged, locals.saved)
                     IN /\ result' = [result EXCEPT !.async = after]
                        /\ call' = [call EXCEPT
                                       !.async_entry = @ + 1,
                                       !.async_done = (after.raised
                                                       \/ call.async_entry + 1 = Len(new_entries))]
    /\ UNCHANGED <<storeVars, queryVars>>

InitBothUpserts ==
    /\ InitStore /\ IdleQuery
    /\ \E name \in Names, n \in 0..MaxParents :
          call = [fn |-> "upsert_parents", name |-> name,
                  texts |-> <<[source |-> name, n |-> n]>>,
                  sync_done |-> FALSE, async_done |-> FALSE, async_entry |-> 0]
    /\ result = [kind |-> "upserts", sync |-> NotCalled, async |-> NotCalled]

NextBothUpserts == CallSyncUpsert \/ CallAsyncUpsert

SpecBothUpserts == InitBothUpserts /\ [][NextBothUpserts]_vars

\* C30 as stated: the sync and the async parent upsert are equivalent. For
\* the same parent chunks of the chunker, the same file_id_map and the same
\* document store, both stage the same rows and return the same saved count,
\* where no database statement of either has failed.
C30_SyncAndAsyncUpsertAgree ==
    (/\ call.fn = "upsert_parents" /\ call.sync_done /\ call.async_done
     /\ ~SelectFailed(call, result.async)) =>
        /\ result.sync.raised = result.async.raised
        /\ result.sync.staged = result.async.staged
        /\ result.sync.saved = result.async.saved

\* C30, what the code does: for two parent chunks that the store does not
\* hold the async upsert stages two rows and returns 2, the sync upsert
\* raises and stages nothing
C30_Witness ==
    /\ call.fn = "upsert_parents" /\ call.sync_done /\ call.async_done
    /\ call.texts[1].n = 2
    /\ ~result.async.raised /\ result.async.saved = 2
    /\ BagCardinality(result.async.staged) = 2
    /\ result.sync.raised /\ result.sync.staged = EmptyBag

====
